---- MODULE Spec2Model ----
(***************************************************************************)
(* Model of mcp-cli's multi-server orchestration core:                     *)
(*   - the on-disk tool-list cache (src/cache.ts),                         *)
(*   - the retry engine withRetry (src/client.ts),                         *)
(*   - the worker pool processWithConcurrency and the list / grep command  *)
(*     flows built on it (src/commands/list.ts, src/commands/grep.ts).     *)
(*   - two processes writing one cache file while a third reads it.        *)
(*   - the process around them: the settings read from the environment,   *)
(*     the error classifier, argument parsing, configuration lookup and   *)
(*     the exit status of the info and call commands.                     *)
(* The specifications share the variables: SpecCache, SpecRace, SpecRetry, *)
(* SpecPool, SpecClassify, SpecEnv and SpecCli; each keeps the variables   *)
(* of the others at their idle value.                                      *)
(***************************************************************************)
EXTENDS Integers, Sequences, FiniteSets, TLC

VARIABLES
    \* ---- cache store and its environment
    cacheDir,     \* TRUE iff ~/.cache/mcp-cli exists
    cacheFiles,   \* sanitized key -> content of <key>.json
    now,          \* Date.now() in ms
    noCache,      \* isCacheDisabled()
    ttlMs,        \* getCacheTTLMs()
    last,         \* the most recent cache operation and what it returned
    disk,         \* the text of one cache file, while processes race on it
    procs,        \* the racing processes: [pc, tools, ts, out]
    \* ---- one call of withRetry
    rcfg,         \* its RetryConfig
    rpc,          \* "idle", "top", "calling", "sleeping", "returned", "thrown"
    attempt,      \* the loop variable
    startTime,    \* Date.now() at entry
    lastError,    \* the last error caught from fn
    delay,        \* the backoff being slept
    thrown,       \* the error withRetry rejected with
    calls,        \* number of invocations of fn so far
    sleeps,       \* number of backoff sleeps started so far
    firstError,   \* the error of the first invocation, if it failed
    punctual,     \* TRUE while every backoff timer so far fired on time
    ops,          \* the withRetry calls of two servers, running concurrently
    \* ---- one run of the list or grep command
    cmd,          \* "list" or "grep"
    pattern,      \* the grep pattern
    items,        \* serverNames, in configuration order
    limit,        \* getConcurrencyLimit()
    ppc,          \* "start", "running", "done", "rejected"
    currentIndex, \* the shared index of processWithConcurrency
    results,      \* its results array, index -> value or hole
    workers,      \* worker -> [pc, index]
    units,        \* index -> state of processor(items[index], index)
    invoked,      \* index -> number of processor invocations
    written,      \* index -> number of writes of results[index]
    stdout,       \* what the command printed with console.log
    stderr,       \* what the command printed with console.error
    \* ---- one process: its environment, its arguments, how it ends
    probe,        \* an error handed to isTransientError, and the verdict
    env,          \* process.env: setting name -> text, or unset
    settings,     \* what the getters of the settings returned
    cli           \* one invocation of main(): argv, files, progress, exit

cacheVars == <<cacheDir, cacheFiles, now, noCache, ttlMs, last, disk, procs>>

retryVars == <<rcfg, rpc, attempt, startTime, lastError, delay, thrown,
               calls, sleeps, firstError, punctual, ops>>

poolVars == <<cmd, pattern, items, limit, ppc, currentIndex, results, workers,
              units, invoked, written, stdout, stderr>>

mainVars == <<probe, env, settings, cli>>

vars == <<cacheVars, retryVars, poolVars, mainVars>>

----------------------------------------------------------------------------
(* Bounds *)
MaxNow == 2500            \* the cache clock stops advancing here
TickMs == 500             \* granularity of the modelled clock
MaxTTLSeconds == 2        \* MCP_CACHE_TTL ranges over 1..MaxTTLSeconds
MaxRetriesBound == 2      \* MCP_MAX_RETRIES ranges over 0..MaxRetriesBound
MaxLimit == 3             \* MCP_CONCURRENCY ranges over 1..MaxLimit

Min(a, b) == IF a <= b THEN a ELSE b
Max(a, b) == IF a >= b THEN a ELSE b


\* Math.round of the non-negative rational num / den
RoundDiv(num, den) == (2 * num + den) \div (2 * den)

----------------------------------------------------------------------------
(* Server names and their sanitized cache keys *)

SafeChars ==
    { "a","b","c","d","e","f","g","h","i","j","k","l","m",
      "n","o","p","q","r","s","t","u","v","w","x","y","z",
      "A","B","C","D","E","F","G","H","I","J","K","L","M",
      "N","O","P","Q","R","S","T","U","V","W","X","Y","Z",
      "0","1","2","3","4","5","6","7","8","9","_","-" }

\* server names as character sequences; the first two collide once sanitized
ServerNames == { <<"a", "/", "b">>, <<"a", "_", "b">>, <<"c">> }

\* serverName.replace(/[^a-z0-9_-]/gi, '_')
SanitizeKeepAll(name) == name
Sanitize(name) ==
    [i \in 1..Len(name) |-> IF name[i] \in SafeChars THEN name[i] ELSE "_"]

getCacheFilePath(name) == Sanitize(name)

CacheKeys == { getCacheFilePath(n) : n \in ServerNames }

----------------------------------------------------------------------------
(* Tool lists and their JSON form *)

CACHE_VERSION == 1

\* ToolInfo as built by listTools: the three properties always exist,
\* description may hold undefined
\* (strings are character sequences; undefined is a value no string equals)
UndefinedStr == <<"undefined">>
Tool1 == [name |-> <<"t", "1">>, description |-> UndefinedStr,
          inputSchema |-> <<"s", "1">>]
Tool2 == [name |-> <<"t", "2">>, description |-> <<"d", "2">>,
          inputSchema |-> <<"s", "2">>]

ToolLists == { <<>>, <<Tool1, Tool2>> }

\* JSON.stringify of one ToolInfo: a property holding undefined is omitted
ToolToJson(t) ==
    IF t.description = UndefinedStr
    THEN [name |-> t.name, inputSchema |-> t.inputSchema]
    ELSE [name |-> t.name, description |-> t.description,
          inputSchema |-> t.inputSchema]

\* reading a property of a parsed object: a missing one reads as undefined
Prop(obj, k) == IF k \in DOMAIN obj THEN obj[k] ELSE UndefinedStr

\* deep equality of two tool lists, property by property
ToolsEqual(xs, ys) ==
    /\ Len(xs) = Len(ys)
    /\ \A i \in 1..Len(xs) :
          \A k \in {"name", "description", "inputSchema"} :
              Prop(xs[i], k) = Prop(ys[i], k)

\* contents of a cache file
NoFile == [kind |-> "none"]
CorruptFile == [kind |-> "corrupt"]

\* JSON.stringify(cached, null, 2) for cached = {serverName, tools, timestamp, version}
Stringify(name, tools, timestamp, version) ==
    [kind |-> "json", serverName |-> name,
     tools |-> [i \in 1..Len(tools) |-> ToolToJson(tools[i])],
     timestamp |-> timestamp, version |-> version]

----------------------------------------------------------------------------
(* getCachedToolList as a function of the store and the environment *)

Miss(reason) == [isNull |-> TRUE, tools |-> <<>>, reason |-> reason]
Hit(tools) == [isNull |-> FALSE, tools |-> tools, reason |-> "hit"]

\* the body of the try block once the file content has been read
ReadEntryExpiryFirst(content, t, ttl) ==
    IF content.kind = "corrupt" THEN Miss("unreadable")
    ELSE IF t - content.timestamp > ttl THEN Miss("expired")
    ELSE IF content.version # CACHE_VERSION THEN Miss("version")
    ELSE Hit(content.tools)
ReadEntryStrictExpiry(content, t, ttl) ==
    IF content.kind = "corrupt" THEN Miss("unreadable")
    ELSE IF content.version # CACHE_VERSION THEN Miss("version")
    ELSE IF t - content.timestamp >= ttl THEN Miss("expired")
    ELSE Hit(content.tools)
ReadEntryNoCatch(content, t, ttl) ==
    IF content.kind = "corrupt"
    THEN [isNull |-> FALSE, tools |-> <<>>, reason |-> "raised"]
    ELSE IF content.version # CACHE_VERSION THEN Miss("version")
    ELSE IF t - content.timestamp > ttl THEN Miss("expired")
    ELSE Hit(content.tools)
ReadEntry(content, t, ttl) ==
    IF content.kind = "corrupt" THEN Miss("unreadable")
    ELSE IF content.version # CACHE_VERSION THEN Miss("version")
    ELSE IF t - content.timestamp > ttl THEN Miss("expired")
    ELSE Hit(content.tools)

LookupCache(files, disabled, name, t, ttl) ==
    IF disabled THEN Miss("disabled")
    ELSE IF files[getCacheFilePath(name)].kind = "none" THEN Miss("nofile")
    ELSE ReadEntry(files[getCacheFilePath(name)], t, ttl)

----------------------------------------------------------------------------
(* Cache operations *)

\* at: Date.now() when the operation ran;
\* tools: the list a get, a set or a stats took or returned;
\* prior: what a lookup of the same name gave just before a persisted set
\* (for clearAll: whether the directory held entries);
\* afterSet: a get that directly follows a persisted set of the same name
\* (it then carries that set's prior)
NoOp == [op |-> "none", name |-> <<>>, tools |-> <<>>, isNull |-> TRUE,
         reason |-> "none", prior |-> "na", afterSet |-> FALSE, at |-> 0]

Record(op, name, tools, isNull, reason, prior, afterSet, at) ==
    last' = [op |-> op, name |-> name, tools |-> tools, isNull |-> isNull,
             reason |-> reason, prior |-> prior, afterSet |-> afterSet,
             at |-> at]

\* a get that deletes the entry it finds expired, of another version or
\* unreadable
getCachedToolListEvicting(name) ==
    /\ UNCHANGED <<retryVars, poolVars, mainVars, disk, procs>>
    /\ LET r == LookupCache(cacheFiles, noCache, name, now, ttlMs)
           direct == last.op = "set" /\ last.reason = "saved" /\ last.name = name
       IN /\ Record("get", name, r.tools, r.isNull, r.reason,
                    IF direct THEN last.prior ELSE "na", direct, now)
          /\ cacheFiles' = IF r.reason \in {"expired", "version", "unreadable"}
                           THEN [cacheFiles EXCEPT ![getCacheFilePath(name)] = NoFile]
                           ELSE cacheFiles
    /\ UNCHANGED <<cacheDir, now, noCache, ttlMs>>

getCachedToolList(name) ==
    /\ UNCHANGED <<retryVars, poolVars, mainVars, disk, procs>>
    /\ LET r == LookupCache(cacheFiles, noCache, name, now, ttlMs)
           direct == last.op = "set" /\ last.reason = "saved" /\ last.name = name
       IN Record("get", name, r.tools, r.isNull, r.reason,
                 IF direct THEN last.prior ELSE "na", direct, now)
    /\ UNCHANGED <<cacheDir, cacheFiles, now, noCache, ttlMs>>

\* Bun.write(cacheFile, JSON.stringify(cached, null, 2)) with
\* cached = {serverName, tools, timestamp: Date.now(), version: CACHE_VERSION}
WriteEntryKeepOld(files, name, tools, t) ==
    IF files[getCacheFilePath(name)].kind = "none"
    THEN [files EXCEPT ![getCacheFilePath(name)] =
             Stringify(name, tools, t, CACHE_VERSION)]
    ELSE files
WriteEntry(files, name, tools, t) ==
    [files EXCEPT ![getCacheFilePath(name)] =
        Stringify(name, tools, t, CACHE_VERSION)]

\* the path setCachedToolList takes: the early return, the try block to its
\* end, or the catch block
\* writeOk = FALSE: ensureCacheDir or Bun.write throws, the catch logs it
SetOutcomeIgnoresDisable(disabled, writeOk) ==
    IF writeOk THEN "saved" ELSE "failed"
SetOutcome(disabled, writeOk) ==
    IF disabled THEN "disabled"
    ELSE IF writeOk THEN "saved"
    ELSE "failed"

setCachedToolList(name, tools, writeOk) ==
    /\ UNCHANGED <<retryVars, poolVars, mainVars, disk, procs>>
    /\ LET outcome == SetOutcome(noCache, writeOk)
       IN IF outcome = "saved"
          THEN /\ cacheDir' = TRUE
               /\ cacheFiles' = WriteEntry(cacheFiles, name, tools, now)
               /\ Record("set", name, tools, TRUE, "saved",
                      LookupCache(cacheFiles, noCache, name, now, ttlMs).reason,
                      FALSE, now)
          ELSE /\ UNCHANGED <<cacheDir, cacheFiles>>
               /\ Record("set", name, tools, TRUE, outcome, "na", FALSE, now)
    /\ UNCHANGED <<now, noCache, ttlMs>>

\* rmSync(cacheFile)
RemoveEntryEverything(files, name) == [k \in DOMAIN files |-> NoFile]
RemoveEntry(files, name) == [files EXCEPT ![getCacheFilePath(name)] = NoFile]

clearServerCache(name) ==
    /\ UNCHANGED <<retryVars, poolVars, mainVars, disk, procs>>
    /\ IF cacheFiles[getCacheFilePath(name)].kind # "none"
       THEN /\ cacheFiles' = RemoveEntry(cacheFiles, name)
            /\ Record("clear", name, <<>>, TRUE, "removed", "na", FALSE, 0)
       ELSE /\ UNCHANGED cacheFiles
            /\ Record("clear", name, <<>>, TRUE, "absent", "na", FALSE, 0)
    /\ UNCHANGED <<cacheDir, now, noCache, ttlMs>>

\* rmSync(cacheDir, { recursive: true, force: true }): what is left of the
\* files of the directory
RemoveAllExpired(files) ==
    [k \in DOMAIN files |->
        IF files[k].kind = "json" /\ now - files[k].timestamp <= ttlMs
        THEN files[k] ELSE NoFile]
RemoveAll(files) == [k \in DOMAIN files |-> NoFile]

clearAllCaches ==
    /\ UNCHANGED <<retryVars, poolVars, mainVars, disk, procs>>
    /\ IF cacheDir
       THEN /\ cacheDir' = FALSE
            /\ cacheFiles' = RemoveAll(cacheFiles)
            /\ Record("clearAll", <<>>, <<>>, TRUE, "removed",
                   IF \E k \in DOMAIN cacheFiles : cacheFiles[k].kind # "none"
                   THEN "entries" ELSE "empty",
                   FALSE, 0)
       ELSE /\ UNCHANGED <<cacheDir, cacheFiles>>
            /\ Record("clearAll", <<>>, <<>>, TRUE, "absent", "na", FALSE, 0)
    /\ UNCHANGED <<now, noCache, ttlMs>>

\* one iteration of the loop over the files: stats.push(...) when the file
\* is read and parsed, nothing when the inner catch logs it
StatsRecordFreshOnly(content, t) ==
    IF content.kind = "json" /\ t - content.timestamp <= ttlMs
    THEN << [server |-> content.serverName,
             age |-> RoundDiv(t - content.timestamp, 1000),
             toolCount |-> Len(content.tools)] >>
    ELSE <<>>
StatsRecord(content, t) ==
    IF content.kind = "json"
    THEN << [server |-> content.serverName,
             age |-> RoundDiv(t - content.timestamp, 1000),
             toolCount |-> Len(content.tools)] >>
    ELSE <<>>

\* the loop over the files the scan of *.json yielded (in the scan's order)
RECURSIVE StatsOver(_, _, _)
StatsOver(files, keys, t) ==
    IF keys = {} THEN <<>>
    ELSE LET k == CHOOSE x \in keys : TRUE
         IN StatsRecord(files[k], t) \o StatsOver(files, keys \ {k}, t)

\* the list getCacheStats returns; scanOk = FALSE: the scan throws and the
\* outer catch logs it
CacheStats(dirExists, files, t, scanOk) ==
    IF ~dirExists THEN <<>>
    ELSE IF ~scanOk THEN <<>>
    ELSE StatsOver(files, { k \in DOMAIN files : files[k].kind # "none" }, t)

\* the record's tools field holds the list returned
getCacheStats(scanOk) ==
    /\ UNCHANGED <<retryVars, poolVars, mainVars, disk, procs>>
    /\ Record("stats", <<>>, CacheStats(cacheDir, cacheFiles, now, scanOk), FALSE,
              IF ~cacheDir THEN "nodir"
              ELSE IF scanOk THEN "listed" ELSE "scanFailed",
              "na", FALSE, now)
    /\ UNCHANGED <<cacheDir, cacheFiles, now, noCache, ttlMs>>

\* the wall clock advances between two operations
Tick ==
    /\ UNCHANGED <<retryVars, poolVars, mainVars, disk, procs>>
    /\ now + TickMs <= MaxNow
    /\ now' = now + TickMs
    /\ UNCHANGED <<cacheDir, cacheFiles, noCache, ttlMs, last>>

----------------------------------------------------------------------------
(* isTransientError: error codes, then regular expressions on the message *)

\* an Error value: its code property ("none" when it has none) and its
\* message as a sequence of characters
Err(code, message) == [code |-> code, message |-> message]
Undefined == [code |-> "undefined", message |-> <<>>]

transientCodes ==
    { "ECONNREFUSED", "ECONNRESET", "ETIMEDOUT", "ENOTFOUND", "EPIPE",
      "ENETUNREACH", "EHOSTUNREACH", "EAI_AGAIN" }

UpperToLower ==
    [c \in {"A","B","C","D","E","F","G","H","I","J","K","L","M",
            "N","O","P","Q","R","S","T","U","V","W","X","Y","Z"} |->
      CASE c = "A" -> "a" [] c = "B" -> "b" [] c = "C" -> "c" [] c = "D" -> "d"
        [] c = "E" -> "e" [] c = "F" -> "f" [] c = "G" -> "g" [] c = "H" -> "h"
        [] c = "I" -> "i" [] c = "J" -> "j" [] c = "K" -> "k" [] c = "L" -> "l"
        [] c = "M" -> "m" [] c = "N" -> "n" [] c = "O" -> "o" [] c = "P" -> "p"
        [] c = "Q" -> "q" [] c = "R" -> "r" [] c = "S" -> "s" [] c = "T" -> "t"
        [] c = "U" -> "u" [] c = "V" -> "v" [] c = "W" -> "w" [] c = "X" -> "x"
        [] c = "Y" -> "y" [] c = "Z" -> "z"]

\* the i flag: letters compare without case
Lower(c) == IF c \in DOMAIN UpperToLower THEN UpperToLower[c] ELSE c

\* \w and \s
WordChars == SafeChars \ {"-"}
WhiteSpace == {" ", "\t", "\n", "\r"}

\* \b between positions i-1 and i of m (i in 1..Len(m)+1)
BoundaryAt(m, i) ==
    (i > 1 /\ i - 1 <= Len(m) /\ m[i - 1] \in WordChars)
        # (i >= 1 /\ i <= Len(m) /\ m[i] \in WordChars)

\* the lower-case literal lit occurs in m at position i, ignoring case
LitAt(m, i, lit) ==
    /\ i >= 1
    /\ i + Len(lit) - 1 <= Len(m)
    /\ \A k \in 1..Len(lit) : Lower(m[i + k - 1]) = lit[k]

\* m[a..b-1] is a (possibly empty) run of whitespace
WsRun(m, a, b) ==
    /\ a <= b
    /\ b <= Len(m) + 1
    /\ \A k \in a..(b - 1) : m[k] \in WhiteSpace

StatusCodes == { <<"5", "0", "2">>, <<"5", "0", "3">>, <<"5", "0", "4">>, <<"4", "2", "9">> }
StatusPhrases == { <<"b", "a", "d", " ", "g", "a", "t", "e", "w", "a", "y">>,
                   <<"s", "e", "r", "v", "i", "c", "e", " ", "u", "n", "a", "v", "a", "i", "l", "a", "b", "l", "e">>,
                   <<"g", "a", "t", "e", "w", "a", "y", " ", "t", "i", "m", "e", "o", "u", "t">>,
                   <<"t", "o", "o", " ", "m", "a", "n", "y", " ", "r", "e", "q", "u", "e", "s", "t", "s">> }
NetworkWords == { <<"e", "r", "r", "o", "r">>, <<"f", "a", "i", "l">>, <<"u", "n", "a", "v", "a", "i", "l", "a", "b", "l", "e">>, <<"t", "i", "m", "e", "o", "u", "t">> }
ConnectionWords == { <<"r", "e", "s", "e", "t">>, <<"r", "e", "f", "u", "s", "e", "d">>, <<"t", "i", "m", "e", "o", "u", "t">> }
L_http == <<"h", "t", "t", "p">>
L_status == <<"s", "t", "a", "t", "u", "s">>
L_code == <<"c", "o", "d", "e">>
L_network == <<"n", "e", "t", "w", "o", "r", "k">>
L_connection == <<"c", "o", "n", "n", "e", "c", "t", "i", "o", "n">>
L_timeout == <<"t", "i", "m", "e", "o", "u", "t">>

\* (502|503|504|429) at position i
CodeAt(m, i) == \E c \in StatusCodes : LitAt(m, i, c)

\* /^(502|503|504|429)\b/
LeadingStatus(m) == CodeAt(m, 1) /\ BoundaryAt(m, 4)

\* positions right after a match of (http|status(\s+code)?) starting at i
PrefixEnds(m, i) ==
    (IF LitAt(m, i, L_http) THEN {i + 4} ELSE {})
    \cup (IF LitAt(m, i, L_status) THEN {i + 6} ELSE {})
    \cup (IF LitAt(m, i, L_status)
          THEN { q + 4 : q \in { q \in (i + 7)..Len(m) :
                                   WsRun(m, i + 6, q) /\ LitAt(m, q, L_code) } }
          ELSE {})

\* /\b(http|status(\s+code)?)\s*(502|503|504|429)\b/i
HttpContextStatus(m) ==
    \E i \in 1..Len(m) :
        /\ BoundaryAt(m, i)
        /\ \E j \in PrefixEnds(m, i) : \E p \in j..Len(m) :
              WsRun(m, j, p) /\ CodeAt(m, p) /\ BoundaryAt(m, p + 3)

\* /\b(502|503|504|429)\s+(bad gateway|service unavailable|gateway timeout|too many requests)/i
StatusWithPhrase(m) ==
    \E i \in 1..Len(m) :
        /\ BoundaryAt(m, i)
        /\ CodeAt(m, i)
        /\ \E p \in (i + 4)..Len(m) :
              WsRun(m, i + 3, p) /\ \E ph \in StatusPhrases : LitAt(m, p, ph)

\* /word\s*(w1|w2|...)/i
WordThenOneOf(m, word, nexts) ==
    \E i \in 1..Len(m) :
        /\ LitAt(m, i, word)
        /\ \E p \in (i + Len(word))..Len(m) :
              WsRun(m, i + Len(word), p) /\ \E w \in nexts : LitAt(m, p, w)

\* /\btimeout\b/i
StandaloneTimeout(m) ==
    \E i \in 1..Len(m) :
        BoundaryAt(m, i) /\ LitAt(m, i, L_timeout) /\ BoundaryAt(m, i + 7)

\* a classifier whose status patterns lack the anchors and word boundaries
isTransientErrorUnanchored(error) ==
    \/ error.code \in transientCodes
    \/ \E i \in 1..Len(error.message) : CodeAt(error.message, i)
    \/ \E i \in 1..Len(error.message) : LitAt(error.message, i, L_timeout)

isTransientError(error) ==
    \/ error.code \in transientCodes
    \/ LeadingStatus(error.message)
    \/ HttpContextStatus(error.message)
    \/ StatusWithPhrase(error.message)
    \/ WordThenOneOf(error.message, L_network, NetworkWords)
    \/ WordThenOneOf(error.message, L_connection, ConnectionWords)
    \/ StandaloneTimeout(error.message)

\* error messages used as inputs
Msg503 == <<"5", "0", "3", " ", "S", "e", "r", "v", "i", "c", "e", " ", "U", "n", "a", "v", "a", "i", "l", "a", "b", "l", "e">>
MsgInvalidJson == <<"I", "n", "v", "a", "l", "i", "d", " ", "J", "S", "O", "N">>
MsgConnFailed == <<"C", "o", "n", "n", "e", "c", "t", "i", "o", "n", " ", "f", "a", "i", "l", "e", "d">>

----------------------------------------------------------------------------
(* The retry engine *)

\* getRetryConfig, given what getTimeoutMs, getMaxRetries and getRetryDelayMs
\* returned
getRetryConfig(totalBudgetMs, maxRetries, baseDelayMs) ==
    LET retryBudgetMs == Max(0, totalBudgetMs - 5000)
    IN [maxRetries |-> maxRetries,
        baseDelayMs |-> baseDelayMs,
        maxDelayMs |-> Min(10000, retryBudgetMs \div 2),
        totalBudgetMs |-> totalBudgetMs]

\* a backoff that is not capped by maxDelayMs
calculateDelayUncapped(att, config, k) ==
    RoundDiv(config.baseDelayMs * 2 ^ att * (64 + k), 64)

\* calculateDelay; Math.random() * 2 - 1 is k / 16 for some k in -16..15
calculateDelay(att, config, k) ==
    LET exponentialDelay == config.baseDelayMs * 2 ^ att
        cappedDelay == Min(exponentialDelay, config.maxDelayMs)
    IN RoundDiv(cappedDelay * (64 + k), 64)

\* the for loop's condition
LoopContinues(att, config) == att <= config.maxRetries

\* the budget check at the top of the loop body
BudgetExhaustedNever(elapsed, config) == FALSE
BudgetExhausted(elapsed, config) == elapsed >= config.totalBudgetMs

ShouldRetryAnyError(att, error, remainingBudget, config) ==
    /\ att < config.maxRetries
    /\ remainingBudget > 1000
ShouldRetryNoAttemptLimit(att, error, remainingBudget, config) ==
    /\ isTransientError(error)
    /\ remainingBudget > 1000
ShouldRetryIgnoringBudget(att, error, remainingBudget, config) ==
    /\ att < config.maxRetries
    /\ isTransientError(error)
shouldRetry(att, error, remainingBudget, config) ==
    /\ att < config.maxRetries
    /\ isTransientError(error)
    /\ remainingBudget > 1000

\* inputs of the modelled calls
BudgetSeconds == {1, 6, 30}        \* values of MCP_TIMEOUT
BaseDelays == {3, 1000, 3000}      \* values of MCP_RETRY_DELAY
OpDurations == {0, 1000, 4000}     \* how long one invocation of fn takes
Oversleep == {0, 500, 2000}        \* how late a setTimeout may fire
JitterSteps == {-16, 0, 15}        \* sampled values of Math.random()
RetryErrors ==
    { Err("ECONNREFUSED", MsgConnFailed), Err("none", Msg503),
      Err("none", MsgInvalidJson) }

\* top of the for loop: loop condition, then budget check, then fn() is called
LoopTop ==
    /\ rpc = "top"
    /\ IF LoopContinues(attempt, rcfg)
          /\ ~BudgetExhausted(now - startTime, rcfg)
       THEN /\ rpc' = "calling"
            /\ calls' = calls + 1
            /\ UNCHANGED thrown
       ELSE \* break, or loop exit: throw lastError
            /\ rpc' = "thrown"
            /\ thrown' = lastError
            /\ UNCHANGED calls
    /\ UNCHANGED <<rcfg, attempt, startTime, lastError, delay, sleeps,
                   firstError, punctual, ops, cacheVars, poolVars, mainVars>>

\* fn() resolves after d ms: withRetry returns its value
FnResolves(d) ==
    /\ rpc = "calling"
    /\ now' = now + d
    /\ rpc' = "returned"
    /\ UNCHANGED <<rcfg, attempt, startTime, lastError, delay, thrown, calls,
                   sleeps, firstError, punctual, ops>>
    /\ UNCHANGED <<cacheDir, cacheFiles, noCache, ttlMs, last, disk, procs,
                   poolVars, mainVars>>

\* fn() rejects with e after d ms: the catch block
FnRejects(d, e) ==
    /\ rpc = "calling"
    /\ now' = now + d
    /\ lastError' = e
    /\ firstError' = IF calls = 1 THEN e ELSE firstError
    /\ LET remainingBudget == rcfg.totalBudgetMs - (now' - startTime)
       IN IF shouldRetry(attempt, e, remainingBudget, rcfg)
          THEN /\ \E k \in JitterSteps :
                    delay' = Min(calculateDelay(attempt, rcfg, k),
                                 remainingBudget - 1000)
               /\ sleeps' = sleeps + 1
               /\ rpc' = "sleeping"
               /\ UNCHANGED thrown
          ELSE /\ rpc' = "thrown"
               /\ thrown' = e
               /\ UNCHANGED <<delay, sleeps>>
    /\ UNCHANGED <<rcfg, attempt, startTime, calls, punctual, ops>>
    /\ UNCHANGED <<cacheDir, cacheFiles, noCache, ttlMs, last, disk, procs,
                   poolVars, mainVars>>

\* the backoff timer fires, extra ms late (setTimeout takes a negative delay
\* as 0); attempt++
SleepEnds(extra) ==
    /\ rpc = "sleeping"
    /\ now' = now + Max(delay, 0) + extra
    /\ punctual' = (punctual /\ extra = 0)
    /\ attempt' = attempt + 1
    /\ rpc' = "top"
    /\ UNCHANGED <<rcfg, startTime, lastError, delay, thrown, calls, sleeps,
                   firstError, ops>>
    /\ UNCHANGED <<cacheDir, cacheFiles, noCache, ttlMs, last, disk, procs,
                   poolVars, mainVars>>

----------------------------------------------------------------------------
(* Two withRetry calls in flight at once, as when two workers of the pool  *)
(* each run a server's operation; one clock, timers that fire on time      *)

\* the operations; each fails on every attempt with a transient error, and
\* takes: the time each of its attempts lasts
Ops == {1, 2}
TransientFailure == Err("ECONNREFUSED", MsgConnFailed)
PairBudgetSeconds == {6, 30}
AttemptDurations == {1000, 4000}
PairJitter == 0            \* Math.random() = 0.5: the jitter term of calculateDelay is zero

IdleOp ==
    [pc |-> "idle", takes |-> <<>>, startTime |-> 0, attempt |-> 0,
     calls |-> 0, due |-> 0, ended |-> 0]

\* a start time that all calls share
CallStartShared(t, os) ==
    IF \E o \in Ops : os[o].pc # "idle"
    THEN os[CHOOSE o \in Ops : os[o].pc # "idle"].startTime
    ELSE t
\* const startTime = Date.now(), a local of the call
CallStart(t, os) == t

OpsFrame ==
    /\ UNCHANGED <<rcfg, rpc, attempt, startTime, lastError, delay, thrown,
                   calls, sleeps, firstError, punctual>>
    /\ UNCHANGED <<cacheDir, cacheFiles, noCache, ttlMs, last, disk, procs,
                   poolVars, mainVars>>

\* a worker calls withRetry for its server: the statements before the loop
RetryStart(o) ==
    /\ ops[o].pc = "idle"
    /\ ops' = [ops EXCEPT ![o].pc = "top",
                          ![o].startTime = CallStart(now, ops)]
    /\ UNCHANGED now
    /\ OpsFrame

\* top of the for loop of call o: loop condition, budget check, fn()
RetryTop(o) ==
    /\ ops[o].pc = "top"
    /\ ops' = [ops EXCEPT ![o] =
          IF /\ LoopContinues(@.attempt, rcfg)
             /\ ~BudgetExhausted(now - @.startTime, rcfg)
          THEN [@ EXCEPT !.pc = "calling", !.calls = @ + 1,
                         !.due = now + ops[o].takes[ops[o].calls + 1]]
          ELSE [@ EXCEPT !.pc = "thrown", !.ended = now]]
    /\ UNCHANGED now
    /\ OpsFrame

\* fn() of call o rejects: the catch block
RetryCatch(o) ==
    /\ ops[o].pc = "calling"
    /\ ops[o].due = now
    /\ LET remainingBudget == rcfg.totalBudgetMs - (now - ops[o].startTime)
       IN ops' = [ops EXCEPT ![o] =
            IF shouldRetry(@.attempt, TransientFailure, remainingBudget, rcfg)
            THEN [@ EXCEPT !.pc = "sleeping",
                           !.due = now + Min(calculateDelay(ops[o].attempt,
                                                            rcfg, PairJitter),
                                             remainingBudget - 1000)]
            ELSE [@ EXCEPT !.pc = "thrown", !.ended = now]]
    /\ UNCHANGED now
    /\ OpsFrame

\* the backoff timer of call o fires; attempt++
RetryWake(o) ==
    /\ ops[o].pc = "sleeping"
    /\ ops[o].due = now
    /\ ops' = [ops EXCEPT ![o].pc = "top", ![o].attempt = @ + 1]
    /\ UNCHANGED now
    /\ OpsFrame

\* nothing is ready to run: the clock moves to the next completion
Waiting(o) == ops[o].pc \in {"calling", "sleeping"}
TimePasses ==
    /\ \A o \in Ops : ops[o].pc # "top"
    /\ \E o \in Ops : Waiting(o)
    /\ \A o \in Ops : Waiting(o) => ops[o].due > now
    /\ \E o \in Ops :
          /\ Waiting(o)
          /\ \A p \in Ops : Waiting(p) => ops[o].due <= ops[p].due
          /\ now' = ops[o].due
    /\ UNCHANGED ops
    /\ UNCHANGED <<rcfg, rpc, attempt, startTime, lastError, delay, thrown,
                   calls, sleeps, firstError, punctual>>
    /\ UNCHANGED <<cacheDir, cacheFiles, noCache, ttlMs, last, disk, procs,
                   poolVars, mainVars>>

----------------------------------------------------------------------------
(* globToRegex and RegExp.test, used by the grep command *)

LineTerminators == {"\n", "\r"}

RECURSIVE SkipStars(_, _)
SkipStars(p, i) == IF i <= Len(p) /\ p[i] = "*" THEN SkipStars(p, i + 1) ELSE i

\* the regular expression built by globToRegex, as a sequence of tokens:
\* ".*" for **, "[^/]*" for *, "[^/]" for ?, the character itself otherwise
RECURSIVE GlobTokens(_, _)
GlobTokens(p, i) ==
    IF i > Len(p) THEN <<>>
    ELSE IF p[i] = "*" /\ i + 1 <= Len(p) /\ p[i + 1] = "*"
    THEN <<[k |-> "globstar", c |-> "*"]>> \o GlobTokens(p, SkipStars(p, i + 2))
    ELSE IF p[i] = "*" THEN <<[k |-> "star", c |-> "*"]>> \o GlobTokens(p, i + 1)
    ELSE IF p[i] = "?" THEN <<[k |-> "one", c |-> "?"]>> \o GlobTokens(p, i + 1)
    ELSE <<[k |-> "lit", c |-> p[i]]>> \o GlobTokens(p, i + 1)

globToRegex(p) == GlobTokens(p, 1)

\* new RegExp(`^${escaped}$`, 'i').test(str), from token ti and position si
RECURSIVE MatchFrom(_, _, _, _)
MatchFrom(re, ti, str, si) ==
    IF ti > Len(re) THEN si = Len(str) + 1
    ELSE CASE re[ti].k = "lit" ->
                /\ si <= Len(str)
                /\ Lower(str[si]) = Lower(re[ti].c)
                /\ MatchFrom(re, ti + 1, str, si + 1)
           [] re[ti].k = "one" ->
                /\ si <= Len(str)
                /\ str[si] # "/"
                /\ MatchFrom(re, ti + 1, str, si + 1)
           [] re[ti].k = "star" ->
                \/ MatchFrom(re, ti + 1, str, si)
                \/ /\ si <= Len(str)
                   /\ str[si] # "/"
                   /\ MatchFrom(re, ti, str, si + 1)
           [] re[ti].k = "globstar" ->
                \/ MatchFrom(re, ti + 1, str, si)
                \/ /\ si <= Len(str)
                   /\ str[si] \notin LineTerminators
                   /\ MatchFrom(re, ti, str, si + 1)

RegexTest(re, str) == MatchFrom(re, 1, str, 1)

\* a JavaScript string used as a condition
Truthy(str) == str # UndefinedStr /\ str # <<>>

\* the loop body of searchServerTools: does the tool match the pattern
ToolMatches(re, serverName, tool) ==
    \/ RegexTest(re, Prop(tool, "name"))
    \/ RegexTest(re, serverName \o <<"/">> \o Prop(tool, "name"))
    \/ Truthy(Prop(tool, "description")) /\ RegexTest(re, Prop(tool, "description"))

RECURSIVE SearchTools(_, _, _, _)
SearchTools(re, serverName, tools, i) ==
    IF i > Len(tools) THEN <<>>
    ELSE (IF ToolMatches(re, serverName, tools[i])
          THEN <<[server |-> serverName, tool |-> tools[i]]>>
          ELSE <<>>) \o SearchTools(re, serverName, tools, i + 1)

----------------------------------------------------------------------------
(* String.prototype.localeCompare on server names, for the characters the  *)
(* model uses: punctuation sorts before digits, digits before letters; the *)
(* two cases of a letter have one rank, and case decides only between      *)
(* names that are otherwise equal, lower case first                        *)

CollationRank ==
    [c \in {"_", "-", "/", "a", "b", "c", "d", "D"} |->
      CASE c = "_" -> 1 [] c = "-" -> 2 [] c = "/" -> 3
        [] c = "a" -> 10 [] c = "b" -> 11 [] c = "c" -> 12
        [] c = "d" -> 13 [] c = "D" -> 13]

RECURSIVE CompareFrom(_, _, _)
CompareFrom(a, b, i) ==
    IF i > Len(a) /\ i > Len(b) THEN 0
    ELSE IF i > Len(a) THEN -1
    ELSE IF i > Len(b) THEN 1
    ELSE IF CollationRank[a[i]] < CollationRank[b[i]] THEN -1
    ELSE IF CollationRank[a[i]] > CollationRank[b[i]] THEN 1
    ELSE CompareFrom(a, b, i + 1)

\* the first difference in case between two names of equal ranks
RECURSIVE CaseFrom(_, _, _)
CaseFrom(a, b, i) ==
    IF i > Len(a) \/ i > Len(b) THEN 0
    ELSE IF a[i] = b[i] THEN CaseFrom(a, b, i + 1)
    ELSE IF a[i] \in DOMAIN UpperToLower THEN 1
    ELSE -1

localeCompare(a, b) ==
    IF CompareFrom(a, b, 1) # 0 THEN CompareFrom(a, b, 1) ELSE CaseFrom(a, b, 1)

\* insert x into the sorted sequence xs, after the elements that compare equal
RECURSIVE InsertByName(_, _)
InsertByName(xs, x) ==
    IF xs = <<>> THEN <<x>>
    ELSE IF localeCompare(x.name, Head(xs).name) < 0 THEN <<x>> \o xs
    ELSE <<Head(xs)>> \o InsertByName(Tail(xs), x)

\* servers.sort((a, b) => a.name.localeCompare(b.name))
SortByNameUnsorted(xs) == xs
RECURSIVE SortByName(_)
SortByName(xs) ==
    IF xs = <<>> THEN <<>>
    ELSE InsertByName(SortByName(SubSeq(xs, 1, Len(xs) - 1)), xs[Len(xs)])

----------------------------------------------------------------------------
(* processWithConcurrency and the per-server processors of list and grep *)

SrvSlash == <<"a", "/", "b">>
SrvUnder == <<"a", "_", "b">>
SrvC == <<"c">>

\* inputs of the modelled runs
ServerLists ==
    { <<>>, <<SrvC>>, <<SrvC, SrvSlash>>, <<SrvUnder, SrvSlash>>,
      <<SrvC, SrvSlash, SrvUnder>> }
\* a configuration whose names differ in case, for the list command
CaseServerLists == { << <<"D">>, <<"c">>, <<"d">> >> }
Patterns == { <<"*">>, <<"t", "1">> }
ErrMsgs == { <<>>, MsgConnFailed }      \* messages of the errors thrown
MsgCloseFailed == <<"c", "l", "o", "s", "e">>   \* message of a failed close()
CloseMayThrow == { SrvC }               \* servers whose close() may throw

N == Len(items)
Indices == 0..(N - 1)

\* an empty slot of new Array(items.length)
Hole == [hole |-> TRUE]

\* the values fetchServerTools returns
ServerWithTools(name, tools) ==
    [name |-> name, tools |-> tools, error |-> UndefinedStr]
ServerWithError(name, errorMsg) ==
    [name |-> name, tools |-> <<>>, error |-> errorMsg]

\* the values searchServerTools returns
SearchFound(serverName, found) ==
    [serverName |-> serverName, results |-> found, error |-> UndefinedStr]
SearchFailed(serverName, errorMsg) ==
    [serverName |-> serverName, results |-> <<>>, error |-> errorMsg]

\* tools, error: the tool list obtained / the message of the error caught;
\* conn, lst: what connectToServer and listTools did for this unit;
\* looked, hit: the unit called getCachedToolList / it returned a list;
\* cached: how the unit's call of setCachedToolList ended ("none": no call);
\* closed: how the unit's call of safeClose found close() ("none": no call,
\* "ok": close() resolved, "failed": close() threw);
\* closes: the number of calls of close() the unit has made;
\* by: the worker that invoked the processor
IdleUnit ==
    [pc |-> "idle", tools |-> <<>>, error |-> UndefinedStr, value |-> Hole,
     conn |-> "none", lst |-> "none", looked |-> FALSE, hit |-> FALSE,
     cached |-> "none", closed |-> "none", closes |-> 0, by |-> 0]

\* processor(items[index], index) runs up to its first await
StartUnit(c, w) ==
    [IdleUnit EXCEPT !.pc = IF c = "grep" THEN "cacheGet" ELSE "connect",
                     !.by = w]

\* the catch block of fetchServerTools / searchServerTools
CatchErrorRethrow(c, u, name, errorMsg) ==
    [u EXCEPT !.pc = "threw", !.error = errorMsg]
CatchError(c, u, name, errorMsg) ==
    [u EXCEPT !.pc = "returned",
              !.value = IF c = "grep" THEN SearchFailed(name, errorMsg)
                        ELSE ServerWithError(name, errorMsg)]

\* the normal return of fetchServerTools / searchServerTools
ReturnTools(c, u, name, tools) ==
    [u EXCEPT !.pc = "returned",
              !.value = IF c = "grep"
                        THEN SearchFound(name,
                                 SearchTools(globToRegex(pattern), name, tools, 1))
                        ELSE ServerWithTools(name, tools)]

\* Math.min(maxConcurrency, items.length)
WorkerCountUnbounded(maxConcurrency, n) == n
WorkerCount(maxConcurrency, n) == Min(maxConcurrency, n)

\* currentIndex++
NextIndexStuck(cur) == cur
NextIndex(cur) == cur + 1

\* results[index] = value
StoreResultFirstFree(res, index, value) ==
    IF \E i \in DOMAIN res : res[i] = Hole
    THEN LET free == CHOOSE i \in DOMAIN res :
                        res[i] = Hole /\ \A j \in DOMAIN res : res[j] = Hole => i <= j
         IN [res EXCEPT ![free] = value]
    ELSE res
StoreResult(res, index, value) == [res EXCEPT ![index] = value]

NoNewWorker == \A w \in DOMAIN workers : workers[w].pc # "new"

\* listCommand / grepCommand up to the call of processWithConcurrency, and
\* that call up to the creation of the workers
CommandStart ==
    /\ ppc = "start"
    /\ IF N = 0
       THEN /\ stderr' = Append(stderr, [warning |-> "no servers"])
            /\ ppc' = "done"
            /\ UNCHANGED <<results, workers, currentIndex>>
       ELSE /\ results' = [i \in Indices |-> Hole]
            /\ currentIndex' = 0
            /\ workers' = [w \in 1..WorkerCount(limit, N) |->
                             [pc |-> "new", index |-> -1]]
            /\ ppc' = "running"
            /\ UNCHANGED stderr
    /\ UNCHANGED <<cmd, pattern, items, limit, units, invoked, written, stdout>>
    /\ UNCHANGED <<cacheVars, retryVars, mainVars>>

\* worker w runs: first call (workers are started one after the other, without
\* an await in between) or resumption after its awaited processor settled;
\* then the while loop up to the next await
WorkerRun(w) ==
    /\ ppc = "running"
    /\ w \in DOMAIN workers
    /\ \/ workers[w].pc = "new" /\ \A v \in 1..(w - 1) : workers[v].pc # "new"
       \/ /\ workers[w].pc = "await"
          /\ NoNewWorker
          /\ units[workers[w].index].pc \in {"returned", "threw"}
    /\ LET resumed == workers[w].pc = "await"
           idx == workers[w].index
           rejects == resumed /\ units[idx].pc = "threw"
           res1 == IF resumed /\ ~rejects
                   THEN StoreResult(results, idx, units[idx].value)
                   ELSE results
           wr1 == IF resumed /\ ~rejects
                  THEN [written EXCEPT ![idx] = @ + 1]
                  ELSE written
           un1 == IF resumed
                  THEN [units EXCEPT ![idx].pc = "consumed"]
                  ELSE units
       IN /\ results' = res1
          /\ written' = wr1
          /\ IF rejects
             THEN /\ workers' = [workers EXCEPT ![w] = [pc |-> "rejected", index |-> -1]]
                  /\ ppc' = "rejected"
                  /\ units' = un1
                  /\ UNCHANGED <<currentIndex, invoked>>
             ELSE IF currentIndex < N
             THEN /\ currentIndex' = NextIndex(currentIndex)
                  /\ invoked' = [invoked EXCEPT ![currentIndex] = @ + 1]
                  /\ units' = [un1 EXCEPT ![currentIndex] = StartUnit(cmd, w)]
                  /\ workers' = [workers EXCEPT ![w] =
                                    [pc |-> "await", index |-> currentIndex]]
                  /\ UNCHANGED ppc
             ELSE /\ workers' = [workers EXCEPT ![w] = [pc |-> "done", index |-> -1]]
                  /\ units' = un1
                  /\ UNCHANGED <<currentIndex, invoked, ppc>>
    /\ UNCHANGED <<cmd, pattern, items, limit, stdout, stderr>>
    /\ UNCHANGED <<cacheVars, retryVars, mainVars>>

UnitStep(i, pc) ==
    /\ ppc = "running"
    /\ NoNewWorker
    /\ i \in Indices
    /\ units[i].pc = pc

UnitFrame ==
    /\ UNCHANGED <<cmd, pattern, items, limit, ppc, currentIndex, results,
                   workers, invoked, written, stdout, stderr>>
    /\ UNCHANGED <<retryVars, mainVars>>

\* searchServerTools: await getCachedToolList(serverName) settles
CacheGetDone(i) ==
    /\ UnitStep(i, "cacheGet")
    /\ LET r == LookupCache(cacheFiles, noCache, items[i + 1], now, ttlMs)
       IN units' = [units EXCEPT ![i] =
            IF ~r.isNull
            THEN ReturnTools(cmd, [@ EXCEPT !.looked = TRUE, !.hit = TRUE,
                                            !.tools = r.tools],
                             items[i + 1], r.tools)
            ELSE [@ EXCEPT !.pc = "connect", !.looked = TRUE]]
    /\ UnitFrame
    /\ UNCHANGED cacheVars

\* a connect whose failure is cached as an empty tool list
ConnectDoneCachesFailure(i, ok, errorMsg) ==
    /\ UnitStep(i, "connect")
    /\ units' = [units EXCEPT ![i] =
          IF ok
          THEN [@ EXCEPT !.pc = "list", !.conn = "ok"]
          ELSE [@ EXCEPT !.pc = "cacheSet", !.conn = "fail", !.error = errorMsg]]
    /\ UnitFrame
    /\ UNCHANGED cacheVars

\* await connectToServer(serverName, serverConfig) settles: ok, or it throws
\* an error whose message is errorMsg
ConnectDone(i, ok, errorMsg) ==
    /\ UnitStep(i, "connect")
    /\ units' = [units EXCEPT ![i] =
          IF ok
          THEN [@ EXCEPT !.pc = "list", !.conn = "ok"]
          ELSE CatchError(cmd, [@ EXCEPT !.conn = "fail", !.error = errorMsg],
                          items[i + 1], errorMsg)]
    /\ UnitFrame
    /\ UNCHANGED cacheVars

\* what follows a successful listTools: in searchServerTools the cache write,
\* in fetchServerTools the finally block
AfterListNoCacheWrite(c) == "close"
AfterList(c) == IF c = "grep" THEN "cacheSet" ELSE "close"

\* a listTools whose failure goes to the catch block past the finally block
ListDoneNoFinally(i, ok, tools, errorMsg) ==
    /\ UnitStep(i, "list")
    /\ units' = [units EXCEPT ![i] =
          IF ok
          THEN [@ EXCEPT !.pc = AfterList(cmd), !.tools = tools, !.lst = "ok"]
          ELSE CatchError(cmd, [@ EXCEPT !.error = errorMsg, !.lst = "fail"],
                          items[i + 1], errorMsg)]
    /\ UnitFrame
    /\ UNCHANGED cacheVars

\* await listTools(client) settles; when it throws the finally block comes
\* next
ListDone(i, ok, tools, errorMsg) ==
    /\ UnitStep(i, "list")
    /\ units' = [units EXCEPT ![i] =
          IF ok
          THEN [@ EXCEPT !.pc = AfterList(cmd), !.tools = tools, !.lst = "ok"]
          ELSE [@ EXCEPT !.pc = "close", !.error = errorMsg, !.lst = "fail"]]
    /\ UnitFrame
    /\ UNCHANGED cacheVars

\* searchServerTools: await setCachedToolList(serverName, tools) settles
CacheSetDone(i, writeOk) ==
    /\ UnitStep(i, "cacheSet")
    /\ IF SetOutcome(noCache, writeOk) = "saved"
       THEN /\ cacheDir' = TRUE
            /\ cacheFiles' = WriteEntry(cacheFiles, items[i + 1], units[i].tools, now)
       ELSE UNCHANGED <<cacheDir, cacheFiles>>
    /\ units' = [units EXCEPT ![i].pc = "close",
                              ![i].cached = SetOutcome(noCache, writeOk)]
    /\ UnitFrame
    /\ UNCHANGED <<now, noCache, ttlMs, last, disk, procs>>

\* safeClose(close): the promise it returns resolves whether close() resolved
\* or threw (the catch block logs the failure and swallows it)
safeCloseRethrows(closeOk) == IF closeOk THEN "resolved" ELSE "rejected"
safeClose(closeOk) == "resolved"

\* await safeClose(close) settles in the finally block; closeOk = FALSE:
\* close() threw. A rejection of safeClose would replace the outcome of the
\* try block and reach the catch block of the processor.
CloseDone(i, closeOk) ==
    /\ UnitStep(i, "close")
    /\ LET u == [units[i] EXCEPT !.closed = IF closeOk THEN "ok" ELSE "failed",
                                 !.closes = @ + 1]
       IN units' = [units EXCEPT ![i] =
            IF safeClose(closeOk) = "rejected"
            THEN CatchError(cmd, u, items[i + 1], MsgCloseFailed)
            ELSE IF units[i].lst = "ok"
            THEN ReturnTools(cmd, u, items[i + 1], units[i].tools)
            ELSE CatchError(cmd, u, items[i + 1], units[i].error)]
    /\ UnitFrame
    /\ UNCHANGED cacheVars

\* a pool that returns as soon as one worker has finished
PoolReturnFirstWorker ==
    /\ ppc = "running"
    /\ \E w \in DOMAIN workers : workers[w].pc = "done"
    /\ ppc' = "returned"
    /\ UNCHANGED <<cmd, pattern, items, limit, currentIndex, results, workers,
                   units, invoked, written, stdout, stderr>>
    /\ UNCHANGED <<cacheVars, retryVars, mainVars>>

\* await Promise.all(workers) settles and processWithConcurrency returns
PoolReturn ==
    /\ ppc = "running"
    /\ \A w \in DOMAIN workers : workers[w].pc = "done"
    /\ ppc' = "returned"
    /\ UNCHANGED <<cmd, pattern, items, limit, currentIndex, results, workers,
                   units, invoked, written, stdout, stderr>>
    /\ UNCHANGED <<cacheVars, retryVars, mainVars>>

\* results as a sequence
RECURSIVE ArrayToSeq(_, _)
ArrayToSeq(arr, n) ==
    IF n = 0 THEN <<>> ELSE Append(ArrayToSeq(arr, n - 1), arr[n - 1])

SeqToArray(xs) == [i \in 0..(Len(xs) - 1) |-> xs[i + 1]]

\* the tool-like entry listCommand shows for a server with an error
ErrorTool(errorMsg) ==
    [name |-> <<"<", "e", "r", "r", "o", "r", ":", " ">> \o errorMsg \o <<">">>,
     description |-> UndefinedStr, inputSchema |-> <<>>]

\* displayServers of listCommand
DisplayServers(servers) ==
    [k \in 1..Len(servers) |->
        [name |-> servers[k].name,
         tools |-> IF Truthy(servers[k].error)
                   THEN <<ErrorTool(servers[k].error)>>
                   ELSE servers[k].tools]]

\* allResults and failedServers of grepCommand
RECURSIVE AllResults(_, _)
AllResults(rs, k) ==
    IF k > Len(rs) THEN <<>> ELSE rs[k].results \o AllResults(rs, k + 1)

\* the results with a truthy error
FailedServersEvery(rs) == [k \in 1..Len(rs) |-> rs[k]]
FailedServers(rs) ==
    SelectSeq([k \in 1..Len(rs) |-> rs[k]], LAMBDA r : Truthy(r.error))

\* listCommand after the pool returned: sort in place, print
ListFinish(json) ==
    LET servers == SortByName(ArrayToSeq(results, N))
    IN /\ results' = SeqToArray(servers)
       /\ stdout' = Append(stdout,
             IF json THEN [format |-> "json", servers |-> servers]
             ELSE [format |-> "text", servers |-> DisplayServers(servers)])
       /\ UNCHANGED stderr

\* grepCommand after the pool returned: collect, warn, print
GrepFinish(json) ==
    LET serverResults == ArrayToSeq(results, N)
        allResults == AllResults(serverResults, 1)
        failed == FailedServers(serverResults)
        failedServers == [k \in 1..Len(failed) |-> failed[k].serverName]
    IN /\ stderr' = IF Len(failedServers) > 0
                    THEN Append(stderr, [warning |-> "failed to connect",
                                         count |-> Len(failedServers),
                                         servers |-> failedServers])
                    ELSE stderr
       /\ stdout' = Append(stdout,
             IF Len(allResults) = 0 THEN [format |-> "no tools found"]
             ELSE [format |-> IF json THEN "json" ELSE "text",
                   results |-> allResults])
       /\ UNCHANGED results

CommandFinish(json) ==
    /\ ppc = "returned"
    /\ IF cmd = "list" THEN ListFinish(json) ELSE GrepFinish(json)
    /\ ppc' = "done"
    /\ UNCHANGED <<cmd, pattern, items, limit, currentIndex, workers, units,
                   invoked, written>>
    /\ UNCHANGED <<cacheVars, retryVars, mainVars>>

----------------------------------------------------------------------------
(* Two processes that write the entry of one server while a third reads it *)

\* the text JSON.stringify(cached, null, 2) gives, cut in pieces: the head up
\* to the opening of "tools", one piece per tool, the tail from its closing on
Serialize(entry) ==
    << [t |-> "head", v |-> entry.serverName] >>
        \o [i \in 1..Len(entry.tools) |-> [t |-> "tool", v |-> entry.tools[i]]]
        \o << [t |-> "tail", v |-> <<entry.timestamp, entry.version>>] >>

\* no file at the path
NoDisk == [exists |-> FALSE, text |-> <<>>]

\* what existsSync, file.text() and JSON.parse make of the file: only a whole
\* text (a head, tools, a tail and nothing after it) parses
ParseFile(d) ==
    IF ~d.exists THEN NoFile
    ELSE IF /\ Len(d.text) >= 2
            /\ d.text[1].t = "head"
            /\ d.text[Len(d.text)].t = "tail"
            /\ \A i \in 2..(Len(d.text) - 1) : d.text[i].t = "tool"
    THEN [kind |-> "json", serverName |-> d.text[1].v,
          tools |-> [i \in 1..(Len(d.text) - 2) |-> d.text[i + 1].v],
          timestamp |-> d.text[Len(d.text)].v[1],
          version |-> d.text[Len(d.text)].v[2]]
    ELSE CorruptFile

\* a write of text at offset 0 of a file open for writing: it replaces the
\* first Len(text) pieces and leaves what lies beyond them
Overwrite(old, text) == text \o SubSeq(old, Len(text) + 1, Len(old))

\* the entry process p writes
WrittenEntry(p) == Stringify(SrvC, procs[p].tools, procs[p].ts, CACHE_VERSION)

\* setCachedToolList(SrvC, tools) in process p, up to the call of Bun.write
SetBegin(p) ==
    /\ p \in {1, 2}
    /\ procs[p].pc = "idle"
    /\ ~noCache
    /\ cacheDir' = TRUE
    /\ procs' = [procs EXCEPT ![p].pc = "begun", ![p].ts = now]
    /\ UNCHANGED <<cacheFiles, now, noCache, ttlMs, last, disk>>
    /\ UNCHANGED <<retryVars, poolVars, mainVars>>

\* Bun.write opens the file: it is created or truncated
FsOpen(p) ==
    /\ p \in {1, 2}
    /\ procs[p].pc = "begun"
    /\ disk' = [exists |-> TRUE, text |-> <<>>]
    /\ cacheFiles' = [cacheFiles EXCEPT ![getCacheFilePath(SrvC)] = ParseFile(disk')]
    /\ procs' = [procs EXCEPT ![p].pc = "opened"]
    /\ UNCHANGED <<cacheDir, now, noCache, ttlMs, last>>
    /\ UNCHANGED <<retryVars, poolVars, mainVars>>

\* Bun.write writes the text and setCachedToolList returns
FsWrite(p) ==
    /\ p \in {1, 2}
    /\ procs[p].pc = "opened"
    /\ disk' = [exists |-> TRUE,
                text |-> Overwrite(disk.text, Serialize(WrittenEntry(p)))]
    /\ cacheFiles' = [cacheFiles EXCEPT ![getCacheFilePath(SrvC)] = ParseFile(disk')]
    /\ procs' = [procs EXCEPT ![p].pc = "done"]
    /\ UNCHANGED <<cacheDir, now, noCache, ttlMs, last>>
    /\ UNCHANGED <<retryVars, poolVars, mainVars>>

\* getCachedToolList(SrvC) in process 3
RaceGet ==
    /\ procs[3].pc = "idle"
    /\ procs' = [procs EXCEPT ![3].pc = "done",
                               ![3].ts = now,
                               ![3].out = LookupCache(cacheFiles, noCache, SrvC,
                                                      now, ttlMs)]
    /\ UNCHANGED <<cacheDir, cacheFiles, now, noCache, ttlMs, last, disk>>
    /\ UNCHANGED <<retryVars, poolVars, mainVars>>

----------------------------------------------------------------------------
(* The settings read from the environment (src/config.ts, src/cache.ts) *)

DEFAULT_TIMEOUT_SECONDS == 1800
DEFAULT_TIMEOUT_MS == DEFAULT_TIMEOUT_SECONDS * 1000
DEFAULT_CONCURRENCY == 5
DEFAULT_MAX_RETRIES == 3
DEFAULT_RETRY_DELAY_MS == 1000
DEFAULT_CACHE_TTL_SECONDS == 3600

DecimalDigits == <<"0", "1", "2", "3", "4", "5", "6", "7", "8", "9">>
IsDigit(c) == \E d \in 1..10 : DecimalDigits[d] = c
DigitValue(c) == (CHOOSE d \in 1..10 : DecimalDigits[d] = c) - 1

\* the number a run of decimal digits denotes
RECURSIVE DecimalValue(_)
DecimalValue(ds) ==
    IF ds = <<>> THEN 0
    ELSE 10 * DecimalValue(SubSeq(ds, 1, Len(ds) - 1)) + DigitValue(ds[Len(ds)])

NaN == [nan |-> TRUE, value |-> 0]
Num(n) == [nan |-> FALSE, value |-> n]

\* a parse that takes the text only when all of it is a signed integer
ParseIntWholeText(str) ==
    LET signed == str # <<>> /\ str[1] \in {"+", "-"}
        ds == IF signed THEN Tail(str) ELSE str
    IN IF ds = <<>> \/ \E k \in 1..Len(ds) : ~IsDigit(ds[k]) THEN NaN
       ELSE Num(IF signed /\ str[1] = "-" THEN 0 - DecimalValue(ds)
                ELSE DecimalValue(ds))

\* Number.parseInt(str, 10): leading white space is skipped, a sign is
\* taken, then the longest run of decimal digits; what follows the run is
\* ignored, and NaN is returned when the run is empty
ParseInt(str) ==
    LET n == Len(str)
        start == CHOOSE i \in 1..(n + 1) :
                    /\ \A k \in 1..(i - 1) : str[k] \in WhiteSpace
                    /\ (i <= n => str[i] \notin WhiteSpace)
        signed == start <= n /\ str[start] \in {"+", "-"}
        first == IF signed THEN start + 1 ELSE start
        last1 == CHOOSE e \in (first - 1)..n :
                    /\ \A k \in first..e : IsDigit(str[k])
                    /\ (e < n => ~IsDigit(str[e + 1]))
        value == DecimalValue(SubSeq(str, first, last1))
    IN IF last1 < first THEN NaN
       ELSE Num(IF str[start] = "-" THEN 0 - value ELSE value)

\* the shape shared by the five getters: the variable is used when it is set
\* to a non-empty text whose parse is a number and not below least
FromEnv(text, least, scale, default) ==
    IF Truthy(text)
    THEN LET parsed == ParseInt(text)
         IN IF ~parsed.nan /\ parsed.value >= least
            THEN parsed.value * scale
            ELSE default
    ELSE default

getTimeoutMs(e) == FromEnv(e["MCP_TIMEOUT"], 1, 1000, DEFAULT_TIMEOUT_MS)
getConcurrencyLimit(e) == FromEnv(e["MCP_CONCURRENCY"], 1, 1, DEFAULT_CONCURRENCY)
getMaxRetries(e) == FromEnv(e["MCP_MAX_RETRIES"], 0, 1, DEFAULT_MAX_RETRIES)
getRetryDelayMs(e) == FromEnv(e["MCP_RETRY_DELAY"], 1, 1, DEFAULT_RETRY_DELAY_MS)
getCacheTTLMs(e) ==
    FromEnv(e["MCP_CACHE_TTL"], 1, 1000, DEFAULT_CACHE_TTL_SECONDS * 1000)

SettingNames ==
    { "MCP_TIMEOUT", "MCP_CONCURRENCY", "MCP_MAX_RETRIES", "MCP_RETRY_DELAY",
      "MCP_CACHE_TTL" }

\* texts a variable may hold
EnvTexts ==
    { <<>>, <<"x">>, <<"0">>, <<"-", "5">>, <<"7">>, <<"6", "0">>,
      <<"5", "x">>, <<"1", ".", "5">>, <<" ", "7">>, <<"+", "3">> }

MaxEnvSet == 2      \* at most this many of the variables are set

NoSettings ==
    [read |-> FALSE, timeoutMs |-> 0, concurrency |-> 0, maxRetries |-> 0,
     retryDelayMs |-> 0, cacheTTLMs |-> 0, retry |-> getRetryConfig(0, 0, 0)]

\* the process reads its settings, and getRetryConfig builds on them
ReadSettings ==
    /\ ~settings.read
    /\ settings' =
          [read |-> TRUE,
           timeoutMs |-> getTimeoutMs(env),
           concurrency |-> getConcurrencyLimit(env),
           maxRetries |-> getMaxRetries(env),
           retryDelayMs |-> getRetryDelayMs(env),
           cacheTTLMs |-> getCacheTTLMs(env),
           retry |-> getRetryConfig(getTimeoutMs(env), getMaxRetries(env),
                                    getRetryDelayMs(env))]
    /\ UNCHANGED <<probe, env, cli>>
    /\ UNCHANGED <<cacheVars, retryVars, poolVars>>

----------------------------------------------------------------------------
(* One invocation of main(): parseArgs, loadConfig, and the info and call  *)
(* commands (src/index.ts, src/config.ts, src/commands/info.ts, call.ts)   *)

CLIENT_ERROR == 1
SERVER_ERROR == 2
NETWORK_ERROR == 3

TokGrep == <<"g", "r", "e", "p">>
TokCache == <<"c", "a", "c", "h", "e">>
TokStats == <<"s", "t", "a", "t", "s">>
TokClear == <<"c", "l", "e", "a", "r">>
HelpOptions == { <<"-", "h">>, <<"-", "-", "h", "e", "l", "p">> }
VersionOptions == { <<"-", "v">>, <<"-", "-", "v", "e", "r", "s", "i", "o", "n">> }
JsonOptions == { <<"-", "j">>, <<"-", "-", "j", "s", "o", "n">> }
DescriptionOptions == { <<"-", "d">>, <<"-", "-", "w", "i", "t", "h", "-", "d", "e", "s", "c", "r", "i", "p", "t", "i", "o", "n", "s">> }
ConfigOptions == { <<"-", "c">>, <<"-", "-", "c", "o", "n", "f", "i", "g">> }

\* the paths of configuration files the runs use
ArgPath == <<"/", "a">>
EnvPath == <<"/", "e">>
\* getDefaultConfigPaths: ./mcp_servers.json, ~/.mcp_servers.json,
\* ~/.config/mcp/mcp_servers.json
getDefaultConfigPaths == << <<".", "/", "m">>, <<"~", "/", ".", "m">>, <<"~", "/", ".", "c", "/", "m">> >>

\* the configuration every file holds: one server with two tools
SrvS == <<"s">>
ConfiguredServers == { SrvS }
ServerTools == <<Tool1, Tool2>>

Includes(str, ch) == \E i \in 1..Len(str) : str[i] = ch

\* the state of the option loop of parseArgs
NoOptions ==
    [stop |-> "none", positional |-> <<>>, configPath |-> UndefinedStr,
     json |-> FALSE, withDescriptions |-> FALSE]

\* the for loop of parseArgs over args, from index i (1-based)
RECURSIVE ScanArgs(_, _, _)
ScanArgs(args, i, acc) ==
    IF i > Len(args) THEN acc
    ELSE LET arg == args[i]
         IN IF arg \in HelpOptions THEN [acc EXCEPT !.stop = "help"]
            ELSE IF arg \in VersionOptions THEN [acc EXCEPT !.stop = "version"]
            ELSE IF arg \in JsonOptions
            THEN ScanArgs(args, i + 1, [acc EXCEPT !.json = TRUE])
            ELSE IF arg \in DescriptionOptions
            THEN ScanArgs(args, i + 1, [acc EXCEPT !.withDescriptions = TRUE])
            ELSE IF arg \in ConfigOptions
            THEN ScanArgs(args, i + 2,
                          [acc EXCEPT !.configPath =
                              IF i + 1 <= Len(args) THEN args[i + 1]
                              ELSE UndefinedStr])
            ELSE IF arg # <<>> /\ arg[1] = "-" /\ arg # <<"-">>
            THEN [acc EXCEPT !.stop = "unknownOption"]
            ELSE ScanArgs(args, i + 1, [acc EXCEPT !.positional = Append(@, arg)])

\* positional.slice(1).join(' ')
RECURSIVE JoinFrom(_, _)
JoinFrom(positional, i) ==
    IF i > Len(positional) THEN <<>>
    ELSE IF i = Len(positional) THEN positional[i]
    ELSE positional[i] \o <<" ">> \o JoinFrom(positional, i + 1)

\* a test that lets the empty pattern through
MissingPatternUndefinedOnly(text) == text = UndefinedStr
\* if (!result.pattern)
MissingPattern(text) == ~Truthy(text)

\* what parseArgs returns; exit is the status it ends the process with, or
\* -1 when it returns
ParsedArgs(command, acc) ==
    [exit |-> -1, errType |-> "none", command |-> command,
     target |-> UndefinedStr, pattern |-> UndefinedStr, args |-> UndefinedStr,
     json |-> acc.json, withDescriptions |-> acc.withDescriptions,
     configPath |-> acc.configPath, cacheAction |-> UndefinedStr]

parseArgs(args) ==
    LET acc == ScanArgs(args, 1, NoOptions)
        positional == acc.positional
        At(k) == IF k <= Len(positional) THEN positional[k] ELSE UndefinedStr
        Fail(command, errType) ==
            [ParsedArgs(command, acc) EXCEPT !.exit = CLIENT_ERROR,
                                             !.errType = errType]
    IN IF acc.stop \in {"help", "version"}
       THEN ParsedArgs(acc.stop, NoOptions)
       ELSE IF acc.stop = "unknownOption" THEN Fail("list", "UNKNOWN_OPTION")
       ELSE IF Len(positional) = 0 THEN ParsedArgs("list", acc)
       ELSE IF positional[1] = TokGrep
       THEN IF MissingPattern(At(2))
            THEN [Fail("grep", "MISSING_ARGUMENT") EXCEPT !.pattern = At(2)]
            ELSE [ParsedArgs("grep", acc) EXCEPT !.pattern = At(2)]
       ELSE IF positional[1] = TokCache
       THEN IF At(2) \notin {TokClear, TokStats}
            THEN Fail("cache", "MISSING_ARGUMENT")
            ELSE [ParsedArgs("cache", acc) EXCEPT !.cacheAction = At(2),
                                                  !.target = At(3)]
       ELSE IF Includes(positional[1], "/")
       THEN IF Len(positional) > 1
            THEN [ParsedArgs("call", acc) EXCEPT
                     !.target = positional[1],
                     !.args = IF JoinFrom(positional, 2) = <<"-">>
                              THEN UndefinedStr
                              ELSE JoinFrom(positional, 2)]
            ELSE [ParsedArgs("info", acc) EXCEPT !.target = positional[1]]
       ELSE [ParsedArgs("info", acc) EXCEPT !.target = positional[1]]

\* the first default path that exists, or undefined
RECURSIVE SearchDefaults(_, _)
SearchDefaults(files, i) ==
    IF i > Len(getDefaultConfigPaths) THEN UndefinedStr
    ELSE IF getDefaultConfigPaths[i] \in files THEN getDefaultConfigPaths[i]
    ELSE SearchDefaults(files, i + 1)

\* loadConfig up to the file it decides to read (resolve() leaves the
\* absolute paths used here as they are); every file that exists holds a
\* valid configuration
loadConfig(explicitPath, envConfigPath, files) ==
    LET configPath == IF Truthy(explicitPath) THEN explicitPath
                      ELSE IF Truthy(envConfigPath) THEN envConfigPath
                      ELSE UndefinedStr
    IN IF Truthy(configPath)
       THEN IF configPath \in files
            THEN [ok |-> TRUE, path |-> configPath, errType |-> "none"]
            ELSE [ok |-> FALSE, path |-> configPath,
                  errType |-> "CONFIG_NOT_FOUND"]
       ELSE IF Truthy(SearchDefaults(files, 1))
            THEN [ok |-> TRUE, path |-> SearchDefaults(files, 1),
                  errType |-> "none"]
            ELSE [ok |-> FALSE, path |-> UndefinedStr,
                  errType |-> "CONFIG_NOT_FOUND"]

\* parseTarget of info.ts and call.ts, for a target with at most one slash
FirstSlash(target) ==
    IF Includes(target, "/")
    THEN CHOOSE i \in 1..Len(target) :
            target[i] = "/" /\ \A k \in 1..(i - 1) : target[k] # "/"
    ELSE Len(target) + 1
TargetServer(target) == SubSeq(target, 1, FirstSlash(target) - 1)
TargetTool(target) ==
    IF Includes(target, "/")
    THEN SubSeq(target, FirstSlash(target) + 1, Len(target))
    ELSE UndefinedStr

\* JSON.parse of the argument texts used here
JsonParses(text) == text = <<"{", "}">>

\* the process ends: process.exit(code), or main() returns and the status
\* is 0
Exit(c, code, cause, errType) ==
    [c EXCEPT !.pc = "exited", !.exitCode = code, !.cause = cause,
              !.errType = errType]

\* main().catch: an error no command handler caught
MainCatch(c, cause) == Exit(c, CLIENT_ERROR, cause, "unformatted")

CliFrame ==
    /\ UNCHANGED <<probe, env, settings>>
    /\ UNCHANGED <<cacheVars, retryVars, poolVars>>

\* main(): parseArgs(process.argv.slice(2))
ParseArgs ==
    /\ cli.pc = "start"
    /\ LET p == parseArgs(cli.argv)
       IN cli' = IF p.exit # -1
                 THEN Exit([cli EXCEPT !.parsed = p], p.exit, "usage", p.errType)
                 ELSE [cli EXCEPT !.parsed = p, !.pc = "parsed"]
    /\ CliFrame

\* help, version and cache stats need no configuration
RunLocal ==
    /\ cli.pc = "parsed"
    /\ cli.parsed.command \in {"help", "version", "cache"}
    /\ cli' = Exit(cli, 0, "none", "none")
    /\ CliFrame

\* the first step of listCommand, grepCommand, infoCommand and callCommand
LoadConfig ==
    /\ cli.pc = "parsed"
    /\ cli.parsed.command \in {"list", "grep", "info", "call"}
    /\ LET r == loadConfig(cli.parsed.configPath, cli.envConfigPath, cli.files)
       IN cli' = IF r.ok
                 THEN [cli EXCEPT !.pc = "loaded", !.loaded = r.path]
                 ELSE Exit(cli, CLIENT_ERROR, "config", r.errType)
    /\ CliFrame

\* listCommand and grepCommand after loadConfig, with every server
\* answering: the matches grep prints
RunBatch ==
    /\ cli.pc = "loaded"
    /\ cli.parsed.command \in {"list", "grep"}
    /\ cli' = Exit([cli EXCEPT !.found =
                        IF cli.parsed.command = "grep"
                        THEN SearchTools(globToRegex(cli.parsed.pattern), SrvS,
                                         ServerTools, 1)
                        ELSE <<>>],
                   0, "none", "none")
    /\ CliFrame

\* infoCommand, callCommand: getServerConfig, and for call the JSON
\* arguments
ResolveTarget ==
    /\ cli.pc = "loaded"
    /\ cli.parsed.command \in {"info", "call"}
    /\ cli' = IF TargetServer(cli.parsed.target) \notin ConfiguredServers
              THEN Exit(cli, CLIENT_ERROR, "server", "SERVER_NOT_FOUND")
              ELSE IF /\ cli.parsed.command = "call"
                      /\ Truthy(cli.parsed.args)
                      /\ ~JsonParses(cli.parsed.args)
              THEN Exit(cli, CLIENT_ERROR, "json", "INVALID_JSON_ARGUMENTS")
              ELSE [cli EXCEPT !.pc = "connect"]
    /\ CliFrame

\* await connectToServer(serverName, serverConfig) settles
CliConnectDone(ok) ==
    /\ cli.pc = "connect"
    /\ cli' = IF ok THEN [cli EXCEPT !.pc = "session", !.opened = TRUE]
              ELSE Exit(cli, NETWORK_ERROR, "connect", "SERVER_CONNECTION_FAILED")
    /\ CliFrame

\* the finally block of infoCommand and callCommand: await safeClose(close);
\* closes counts the calls of the session's close function
Finally(c) == [c EXCEPT !.closes = @ + 1]

\* infoCommand: await listTools(client) settles; a rejection passes the
\* finally block and leaves infoCommand and main() uncaught; process.exit in
\* the try block ends the process before the finally block
InfoListDone(ok) ==
    /\ cli.pc = "session"
    /\ cli.parsed.command = "info"
    /\ LET toolName == TargetTool(cli.parsed.target)
       IN cli' = IF ~ok THEN MainCatch(Finally(cli), "listTools")
                 ELSE IF /\ Truthy(toolName)
                         /\ \A k \in 1..Len(ServerTools) :
                               Prop(ServerTools[k], "name") # toolName
                 THEN Exit(cli, CLIENT_ERROR, "toolMissing", "TOOL_NOT_FOUND")
                 ELSE Exit(Finally(cli), 0, "none", "none")
    /\ CliFrame

\* callCommand: await callTool(client, toolName, args) settles; notFound:
\* the message of the error holds 'not found' or 'unknown tool'; process.exit
\* in the catch block ends the process before the finally block
CallDone(ok, notFound) ==
    /\ cli.pc = "session"
    /\ cli.parsed.command = "call"
    /\ cli' = IF ok THEN Exit(Finally(cli), 0, "none", "none")
              ELSE Exit(cli, SERVER_ERROR, "callTool",
                        IF notFound THEN "TOOL_NOT_FOUND"
                        ELSE "TOOL_EXECUTION_FAILED")
    /\ CliFrame

\* the command lines of the modelled runs, without and with -c
Positionals ==
    { <<>>, <<TokGrep>>, <<TokGrep, <<>>>>, <<TokGrep, <<"*">>>>,
      <<TokGrep, <<"t", "1">>>>, <<SrvS>>, <<<<"n">>>>,
      << <<"s", "/", "t", "1">> >>, << <<"s", "/", "z">> >>,
      << <<"s", "/", "t", "1">>, <<"{", "}">> >>, << <<"s", "/", "t", "1">>, <<"{">> >>,
      << <<"n", "/", "t", "1">>, <<"{", "}">> >>, << <<"-", "x">> >>,
      <<TokCache>>, <<TokCache, TokStats>>, << <<"-", "-", "h", "e", "l", "p">> >> }
Argvs == Positionals \cup { << <<"-", "c">>, ArgPath >> \o p : p \in Positionals }
ConfigFiles ==
    {ArgPath, EnvPath} \cup { getDefaultConfigPaths[i] : i \in 1..3 }

NoCli ==
    [argv |-> <<>>, envConfigPath |-> UndefinedStr, files |-> {}, pc |-> "idle",
     parsed |-> ParsedArgs("list", NoOptions), loaded |-> UndefinedStr,
     cause |-> "none", errType |-> "none", exitCode |-> -1, found |-> <<>>,
     opened |-> FALSE, closes |-> 0]

----------------------------------------------------------------------------
(* The cache command (src/commands/cache.ts)                               *)

\* a command that runs whether or not caching is disabled
CommandProceedsAlways(disabled) == TRUE
\* if (isCacheDisabled()) { console.error(...); return; }
CommandProceeds(disabled) == ~disabled

\* a server name that is not in the configuration
SrvUnknown == <<"n">>

\* one line of 'cache stats': remaining = ttl - stat.age, with ttl the TTL
\* in seconds and stat.age the age in seconds, both rounded
StatLine(stat, ttl) ==
    [name |-> stat.server, toolCount |-> stat.toolCount, age |-> stat.age,
     validity |-> IF ttl - stat.age > 0 THEN "valid" ELSE "expired"]

\* the lines of 'cache stats', sorted by server name
StatLines(stats, ttl) ==
    SortByName([i \in 1..Len(stats) |-> StatLine(stats[i], ttl)])

\* cacheCommand({action, server}); ok: loadConfig resolves (clear <server>),
\* the scan of the cache directory succeeds (stats). The record of the
\* operation holds the lines printed and how the command ended.
cacheCommand(action, server, ok) ==
    /\ UNCHANGED <<retryVars, poolVars, mainVars, disk, procs>>
    /\ LET op == IF action = "clear" THEN "cache clear" ELSE "cache stats"
           End(lines, reason) ==
               Record(op, server, lines, TRUE, reason, "na", FALSE, now)
       IN IF ~CommandProceeds(noCache)
          THEN /\ UNCHANGED <<cacheDir, cacheFiles>>
               /\ End(<<>>, "disabled")
          ELSE IF action = "clear" /\ Truthy(server)
          THEN IF ~ok
               THEN /\ UNCHANGED <<cacheDir, cacheFiles>>
                    /\ End(<<>>, "configError")
               ELSE IF server \notin ServerNames
               THEN /\ UNCHANGED <<cacheDir, cacheFiles>>
                    /\ End(<<>>, "unknownServer")
               ELSE /\ cacheFiles' = RemoveEntry(cacheFiles, server)
                    /\ UNCHANGED cacheDir
                    /\ End(<<>>, "cleared")
          ELSE IF action = "clear"
          THEN /\ IF cacheDir
                  THEN cacheDir' = FALSE /\ cacheFiles' = RemoveAll(cacheFiles)
                  ELSE UNCHANGED <<cacheDir, cacheFiles>>
               /\ End(<<>>, "clearedAll")
          ELSE LET stats == CacheStats(cacheDir, cacheFiles, now, ok)
               IN /\ UNCHANGED <<cacheDir, cacheFiles>>
                  /\ IF stats = <<>>
                     THEN End(<<>>, "empty")
                     ELSE End(StatLines(stats, RoundDiv(ttlMs, 1000)), "printed")
    /\ UNCHANGED <<now, noCache, ttlMs>>

\* the next invocation runs in a process with another MCP_NO_CACHE
NewProcess(disabled) ==
    /\ disabled # noCache
    /\ noCache' = disabled
    /\ UNCHANGED <<cacheDir, cacheFiles, now, ttlMs, last, disk, procs>>
    /\ UNCHANGED <<retryVars, poolVars, mainVars>>

----------------------------------------------------------------------------
(* isTransientError applied to the errors an operation may throw *)

\* messages of the tests of isTransientError and near misses of its patterns
Msg502 == <<"5", "0", "2">>
MsgHttp502 == <<"H", "T", "T", "P", " ", "5", "0", "2">>
MsgStatusCode504 == <<"s", "t", "a", "t", "u", "s", " ", "c", "o", "d", "e", " ", "5", "0", "4">>
Msg429Phrase == <<"E", "r", "r", "o", "r", ":", " ", "4", "2", "9", " ", "T", "o", "o", " ", "M", "a", "n", "y", " ", "R", "e", "q", "u", "e", "s", "t", "s">>
MsgConnRefused == <<"c", "o", "n", "n", "e", "c", "t", "i", "o", "n", " ", "r", "e", "f", "u", "s", "e", "d">>
MsgConnReset == <<"C", "o", "n", "n", "e", "c", "t", "i", "o", "n", " ", "r", "e", "s", "e", "t", " ", "b", "y", " ", "p", "e", "e", "r">>
MsgRequestTimeout == <<"r", "e", "q", "u", "e", "s", "t", " ", "t", "i", "m", "e", "o", "u", "t">>
MsgNetworkError == <<"n", "e", "t", "w", "o", "r", "k", " ", "e", "r", "r", "o", "r", " ", "o", "c", "c", "u", "r", "r", "e", "d">>
MsgLine502 == <<"E", "r", "r", "o", "r", " ", "a", "t", " ", "l", "i", "n", "e", " ", "5", "0", "2", " ", "i", "n", " ", "f", "i", "l", "e">>
MsgPort5029 == <<"P", "o", "r", "t", " ", "5", "0", "2", "9", " ", "i", "s", " ", "i", "n", " ", "u", "s", "e">>
MsgSocialNetwork == <<"s", "o", "c", "i", "a", "l", " ", "n", "e", "t", "w", "o", "r", "k", " ", "t", "o", "o", "l", " ", "f", "a", "i", "l", "e", "d">>
MsgTimeouts == <<"t", "i", "m", "e", "o", "u", "t", "s", " ", "e", "x", "c", "e", "e", "d", "e", "d">>
MsgStatus5029 == <<"s", "t", "a", "t", "u", "s", " ", "5", "0", "2", "9">>
MsgPermission == <<"P", "e", "r", "m", "i", "s", "s", "i", "o", "n", " ", "d", "e", "n", "i", "e", "d">>

\* the values of error.code: absent, recognised, not recognised
ErrorCodes == {"none", "EPERM"} \cup transientCodes
ClassifierMessages ==
    { <<>>, Msg503, MsgInvalidJson, MsgConnFailed,
      Msg502, MsgHttp502, MsgStatusCode504, Msg429Phrase, MsgConnRefused,
      MsgConnReset, MsgRequestTimeout, MsgNetworkError, MsgLine502,
      MsgPort5029, MsgSocialNetwork, MsgTimeouts, MsgStatus5029, MsgPermission }

\* isTransientError(probe.error) returns
Classify ==
    /\ probe.verdict = "none"
    /\ probe' = [probe EXCEPT !.verdict =
                    IF isTransientError(probe.error) THEN "transient"
                    ELSE "fatal"]
    /\ UNCHANGED <<env, settings, cli>>
    /\ UNCHANGED <<cacheVars, retryVars, poolVars>>

PoolIdle ==
    /\ cmd = "none"
    /\ pattern = <<>>
    /\ items = <<>>
    /\ limit = 1
    /\ ppc = "idle"
    /\ currentIndex = 0
    /\ results = <<>>
    /\ workers = <<>>
    /\ units = <<>>
    /\ invoked = <<>>
    /\ written = <<>>
    /\ stdout = <<>>
    /\ stderr = <<>>

RetryIdle ==
    /\ rcfg = getRetryConfig(1000, 0, 1000)
    /\ rpc = "idle"
    /\ attempt = 0
    /\ startTime = 0
    /\ lastError = Undefined
    /\ delay = 0
    /\ thrown = Undefined
    /\ calls = 0
    /\ sleeps = 0
    /\ firstError = Undefined
    /\ punctual = TRUE
    /\ ops = [o \in Ops |-> IdleOp]

MainIdle ==
    /\ probe = [error |-> Undefined, verdict |-> "none"]
    /\ env = [v \in SettingNames |-> UndefinedStr]
    /\ settings = NoSettings
    /\ cli = NoCli

CacheIdle ==
    /\ cacheDir = FALSE
    /\ cacheFiles = [k \in CacheKeys |-> NoFile]
    /\ now = 0
    /\ noCache = FALSE
    /\ ttlMs = 1000
    /\ last = NoOp
    /\ disk = NoDisk
    /\ procs = <<>>

----------------------------------------------------------------------------
(* SpecRetry: one call of withRetry, from its first statement *)

InitRetry ==
    /\ MainIdle
    /\ CacheIdle
    /\ PoolIdle
    /\ \E b \in BudgetSeconds, r \in 0..MaxRetriesBound, d \in BaseDelays :
          rcfg = getRetryConfig(b * 1000, r, d)
    /\ rpc = "top"
    /\ attempt = 0
    /\ startTime = now
    /\ lastError = Undefined
    /\ delay = 0
    /\ thrown = Undefined
    /\ calls = 0
    /\ sleeps = 0
    /\ firstError = Undefined
    /\ punctual = TRUE
    /\ ops = [o \in Ops |-> IdleOp]

NextRetry ==
    \/ LoopTop
    \/ \E d \in OpDurations : FnResolves(d)
    \/ \E d \in OpDurations, e \in RetryErrors : FnRejects(d, e)
    \/ \E x \in Oversleep : SleepEnds(x)

SpecRetry == InitRetry /\ [][NextRetry]_vars

----------------------------------------------------------------------------
(* SpecCache: the cache module driven by arbitrary callers *)

\* files an earlier run (possibly of another version) may have left behind
LeftoverFiles(key) ==
    LET name == CHOOSE n \in ServerNames : getCacheFilePath(n) = key
    IN { NoFile, CorruptFile,
         Stringify(name, <<Tool1>>, 0, CACHE_VERSION),
         Stringify(name, <<Tool1>>, 0, CACHE_VERSION + 1) }

InitCache ==
    /\ MainIdle
    /\ RetryIdle
    /\ PoolIdle
    /\ cacheFiles \in [CacheKeys -> UNION { LeftoverFiles(k) : k \in CacheKeys }]
    /\ \A k \in CacheKeys : cacheFiles[k] \in LeftoverFiles(k)
    /\ cacheDir \in BOOLEAN
    /\ (\E k \in CacheKeys : cacheFiles[k].kind # "none") => cacheDir
    /\ now = 0
    /\ noCache \in BOOLEAN
    /\ ttlMs \in { s * 1000 : s \in 1..MaxTTLSeconds }
    /\ last = NoOp
    /\ disk = NoDisk
    /\ procs = <<>>

NextCache ==
    \/ \E n \in ServerNames : getCachedToolList(n)
    \/ \E n \in ServerNames, t \in ToolLists, ok \in BOOLEAN :
          setCachedToolList(n, t, ok)
    \/ \E n \in ServerNames : clearServerCache(n)
    \/ clearAllCaches
    \/ \E ok \in BOOLEAN : getCacheStats(ok)
    \/ Tick

SpecCache == InitCache /\ [][NextCache]_vars

----------------------------------------------------------------------------
(* SpecRace: two processes set the entry of one server, a third gets it *)

InitRace ==
    /\ MainIdle
    /\ RetryIdle
    /\ PoolIdle
    /\ cacheDir = FALSE
    /\ cacheFiles = [k \in CacheKeys |-> NoFile]
    /\ now = 0
    /\ noCache = FALSE
    /\ ttlMs = 1000
    /\ last = NoOp
    /\ disk = NoDisk
    /\ \E t1 \in ToolLists, t2 \in ToolLists :
          procs = << [pc |-> "idle", tools |-> t1, ts |-> 0, out |-> Miss("none")],
                     [pc |-> "idle", tools |-> t2, ts |-> 0, out |-> Miss("none")],
                     [pc |-> "idle", tools |-> <<>>, ts |-> 0, out |-> Miss("none")] >>

NextRace ==
    \/ \E p \in {1, 2} : SetBegin(p)
    \/ \E p \in {1, 2} : FsOpen(p)
    \/ \E p \in {1, 2} : FsWrite(p)
    \/ RaceGet
    \/ Tick

SpecRace == InitRace /\ [][NextRace]_vars

----------------------------------------------------------------------------
(* SpecPool: one run of the list or the grep command over the servers *)

\* what an earlier run may have cached for a server of this run
PoolCacheFiles(key) ==
    LET name == CHOOSE n \in ServerNames : getCacheFilePath(n) = key
    IN { NoFile, Stringify(name, <<Tool1>>, 0, CACHE_VERSION) }

InitPool ==
    /\ MainIdle
    /\ RetryIdle
    /\ cmd \in {"list", "grep"}
    /\ pattern \in Patterns
    /\ cmd = "list" => pattern = <<"*">>
    /\ items \in ServerLists \cup (IF cmd = "list" THEN CaseServerLists ELSE {})
    /\ limit \in 1..MaxLimit
    /\ ppc = "start"
    /\ currentIndex = 0
    /\ results = <<>>
    /\ workers = <<>>
    /\ units = [i \in Indices |-> IdleUnit]
    /\ invoked = [i \in Indices |-> 0]
    /\ written = [i \in Indices |-> 0]
    /\ stdout = <<>>
    /\ stderr = <<>>
    /\ cacheFiles \in [CacheKeys -> UNION { PoolCacheFiles(k) : k \in CacheKeys }]
    /\ \A k \in CacheKeys : cacheFiles[k] \in PoolCacheFiles(k)
    /\ cmd = "list" => cacheFiles[getCacheFilePath(SrvUnder)] = NoFile
    /\ cacheDir = (\E k \in CacheKeys : cacheFiles[k].kind # "none")
    /\ now = 0
    /\ noCache = FALSE
    /\ ttlMs = 1000
    /\ last = NoOp
    /\ disk = NoDisk
    /\ procs = <<>>

NextPool ==
    \/ CommandStart
    \/ \E w \in 1..MaxLimit : WorkerRun(w)
    \/ \E i \in Indices : CacheGetDone(i)
    \/ \E i \in Indices, ok \in BOOLEAN, m \in ErrMsgs : ConnectDone(i, ok, m)
    \/ \E i \in Indices, ok \in BOOLEAN, t \in ToolLists, m \in ErrMsgs :
          ListDone(i, ok, t, m)
    \/ \E i \in Indices, ok \in BOOLEAN : CacheSetDone(i, ok)
    \/ \E i \in Indices, ok \in BOOLEAN :
          (ok \/ items[i + 1] \in CloseMayThrow) /\ CloseDone(i, ok)
    \/ PoolReturn
    \/ \E json \in BOOLEAN : CommandFinish(json)

SpecPool == InitPool /\ [][NextPool]_vars

\* one await of a processor invocation settles
ProcessorStep ==
    \/ \E i \in Indices : CacheGetDone(i)
    \/ \E i \in Indices, ok \in BOOLEAN, m \in ErrMsgs : ConnectDone(i, ok, m)
    \/ \E i \in Indices, ok \in BOOLEAN, t \in ToolLists, m \in ErrMsgs :
          ListDone(i, ok, t, m)
    \/ \E i \in Indices, ok \in BOOLEAN : CacheSetDone(i, ok)
    \/ \E i \in Indices, ok \in BOOLEAN :
          (ok \/ items[i + 1] \in CloseMayThrow) /\ CloseDone(i, ok)

\* the event loop runs every continuation that is ready, and every await of
\* a processor invocation settles
PoolFairness ==
    /\ WF_vars(CommandStart)
    /\ WF_vars(\E w \in 1..MaxLimit : WorkerRun(w))
    /\ WF_vars(ProcessorStep)
    /\ WF_vars(PoolReturn)

\* SpecPoolFair: the runs of SpecPool that start from an empty cache and
\* search for every tool, in which every processor invocation completes
InitPoolFair ==
    /\ InitPool
    /\ pattern = <<"*">>
    /\ \A k \in CacheKeys : cacheFiles[k] = NoFile

SpecPoolFair == InitPoolFair /\ [][NextPool]_vars /\ PoolFairness

----------------------------------------------------------------------------
(* SpecPair: two servers' operations retried at the same time *)

InitPair ==
    /\ MainIdle
    /\ CacheIdle
    /\ PoolIdle
    /\ \E b \in PairBudgetSeconds, r \in 0..MaxRetriesBound :
          /\ rcfg = getRetryConfig(b * 1000, r, DEFAULT_RETRY_DELAY_MS)
          /\ ops \in [Ops -> { [IdleOp EXCEPT !.takes = t] :
                                  t \in [1..(r + 1) -> AttemptDurations] }]
    /\ rpc = "idle"
    /\ attempt = 0
    /\ startTime = 0
    /\ lastError = Undefined
    /\ delay = 0
    /\ thrown = Undefined
    /\ calls = 0
    /\ sleeps = 0
    /\ firstError = Undefined
    /\ punctual = TRUE

NextPair ==
    \/ \E o \in Ops : RetryStart(o)
    \/ \E o \in Ops : RetryTop(o)
    \/ \E o \in Ops : RetryCatch(o)
    \/ \E o \in Ops : RetryWake(o)
    \/ TimePasses

SpecPair == InitPair /\ [][NextPair]_vars

----------------------------------------------------------------------------
(* SpecCacheCmd: invocations of the cache command and the lookups between  *)
(* them                                                                    *)

NextCacheCmd ==
    \/ \E n \in ServerNames \cup {UndefinedStr, SrvUnknown}, ok \in BOOLEAN :
          cacheCommand("clear", n, ok)
    \/ \E ok \in BOOLEAN : cacheCommand("stats", UndefinedStr, ok)
    \/ \E n \in ServerNames : getCachedToolList(n)
    \/ \E d \in BOOLEAN : NewProcess(d)
    \/ Tick

SpecCacheCmd == InitCache /\ [][NextCacheCmd]_vars

----------------------------------------------------------------------------
(* SpecClassify: one error, classified once *)

InitClassify ==
    /\ CacheIdle
    /\ RetryIdle
    /\ PoolIdle
    /\ \E c \in ErrorCodes, m \in ClassifierMessages :
          probe = [error |-> Err(c, m), verdict |-> "none"]
    /\ env = [v \in SettingNames |-> UndefinedStr]
    /\ settings = NoSettings
    /\ cli = NoCli

NextClassify == Classify

SpecClassify == InitClassify /\ [][NextClassify]_vars

----------------------------------------------------------------------------
(* SpecEnv: a process started with some of the settings in its environment *)

InitEnv ==
    /\ CacheIdle
    /\ RetryIdle
    /\ PoolIdle
    /\ probe = [error |-> Undefined, verdict |-> "none"]
    /\ env \in [SettingNames -> EnvTexts \cup {UndefinedStr}]
    /\ Cardinality({ v \in SettingNames : env[v] # UndefinedStr }) <= MaxEnvSet
    /\ settings = NoSettings
    /\ cli = NoCli

NextEnv == ReadSettings

SpecEnv == InitEnv /\ [][NextEnv]_vars

----------------------------------------------------------------------------
(* SpecCli: one invocation of the program *)

InitCli ==
    /\ CacheIdle
    /\ RetryIdle
    /\ PoolIdle
    /\ probe = [error |-> Undefined, verdict |-> "none"]
    /\ env = [v \in SettingNames |-> UndefinedStr]
    /\ settings = NoSettings
    /\ \E a \in Argvs, e \in {UndefinedStr, EnvPath}, f \in SUBSET ConfigFiles :
          cli = [NoCli EXCEPT !.argv = a, !.envConfigPath = e, !.files = f,
                              !.pc = "start"]

NextCli ==
    \/ ParseArgs
    \/ RunLocal
    \/ LoadConfig
    \/ RunBatch
    \/ ResolveTarget
    \/ \E ok \in BOOLEAN : CliConnectDone(ok)
    \/ \E ok \in BOOLEAN : InfoListDone(ok)
    \/ \E ok \in BOOLEAN, notFound \in BOOLEAN : CallDone(ok, notFound)

SpecCli == InitCli /\ [][NextCli]_vars

----------------------------------------------------------------------------
(* Properties of the worker pool and of the list and grep flows *)

\* the processor invocations that have started and not yet settled
Active == { i \in Indices : units[i].pc \notin {"idle", "returned", "threw", "consumed"} }

\* the server of unit i failed: connect or list-tools threw
Failed(i) == units[i].conn = "fail" \/ units[i].lst = "fail"

\* what fetchServerTools must return for unit i, from what its server did
ExpectedListResult(i) ==
    IF Failed(i)
    THEN [name |-> items[i + 1], tools |-> <<>>, error |-> units[i].error]
    ELSE [name |-> items[i + 1], tools |-> units[i].tools, error |-> UndefinedStr]

\* C1: when processWithConcurrency returns, the array has N elements, element
\* i is the value processor(items[i], i) returned (the result for server
\* items[i]), whatever the completion order; the pool runs min(limit, N)
\* workers, so every limit >= N gives the run of limit = N
C1_OrderPreserved ==
    /\ ppc \in {"running", "returned"} => Len(workers) = Min(limit, N)
    /\ ppc = "returned" =>
          /\ DOMAIN results = Indices
          /\ \A i \in Indices :
                /\ results[i] # Hole
                /\ results[i] = units[i].value
                /\ cmd = "list" => results[i].name = items[i + 1]
                /\ cmd = "grep" => results[i].serverName = items[i + 1]

\* three servers, two workers, and the second worker's first processor was
\* consumed before the first worker's: completion order differs from index order
C1_Witness ==
    /\ ppc = "returned" /\ N = 3 /\ limit = 2
    /\ units[0].by = 1 /\ units[1].by = 2 /\ units[2].by = 2

\* C2: at most limit, and at most min(limit, N), processor invocations are
\* started and not yet completed
C2_ConcurrencyBound ==
    ppc \in {"running", "returned", "done"} =>
        /\ Cardinality(Active) <= limit
        /\ Cardinality(Active) <= Min(limit, N)

\* two invocations in flight with limit 2 while a third server still waits
C2_Witness ==
    /\ ppc = "running" /\ limit = 2 /\ N = 3
    /\ Cardinality(Active) = 2
    /\ currentIndex = 2

\* C3: every index is claimed by exactly one worker: the processor is invoked
\* at most once per index, exactly the indices below currentIndex have been
\* claimed, no two workers hold the same index, each slot is written at most
\* once, and when the pool returns every index was invoked and written once
C3_EachIndexOnce ==
    ppc \in {"running", "returned", "done"} =>
        /\ currentIndex <= N
        /\ \A i \in Indices :
              /\ invoked[i] = (IF i < currentIndex THEN 1 ELSE 0)
              /\ written[i] <= 1
              /\ written[i] = 1 <=> units[i].pc = "consumed"
              /\ ppc \in {"returned", "done"} => invoked[i] = 1 /\ written[i] = 1
        /\ \A w, v \in DOMAIN workers :
              (w # v /\ workers[w].pc = "await" /\ workers[v].pc = "await")
                  => workers[w].index # workers[v].index

\* three items were shared between two interleaving workers
C3_Witness ==
    /\ ppc = "returned" /\ N = 3
    /\ units[0].by = 1 /\ units[1].by = 2 /\ units[2].by = 1
    /\ \A i \in Indices : invoked[i] = 1 /\ written[i] = 1

\* C6: the list flow never rejects; when the pool returns there are N
\* results, result i is for server items[i], a failure of connect or
\* list-tools is that server's result (no tools, the error message), and each
\* result is determined by what its own server did
C6_FailureIsolated ==
    cmd = "list" =>
        /\ ppc # "rejected"
        /\ \A i \in Indices : units[i].pc # "threw"
        /\ ppc = "returned" =>
              /\ DOMAIN results = Indices
              /\ \A i \in Indices : results[i] = ExpectedListResult(i)

\* three servers, limit 2, the second fails to connect: three results, two
\* with their tool lists, one flagged
C6_Witness ==
    /\ cmd = "list" /\ ppc = "returned" /\ N = 3 /\ limit = 2
    /\ units[1].conn = "fail" /\ results[1].error = MsgConnFailed
    /\ results[1].tools = <<>>
    /\ results[0] = ServerWithTools(items[1], <<Tool1, Tool2>>)
    /\ results[2] = ServerWithTools(items[3], <<Tool1, Tool2>>)

\* the servers of the failed units, in configuration order
RECURSIVE NamesOf(_, _)
NamesOf(k, S) ==
    IF k >= N THEN <<>>
    ELSE (IF k \in S THEN <<items[k + 1]>> ELSE <<>>) \o NamesOf(k + 1, S)

AllFailedNames == NamesOf(0, { i \in Indices : Failed(i) })
NamedFailedNames ==
    NamesOf(0, { i \in Indices : Failed(i) /\ Truthy(units[i].error) })

FailureWarning(names) ==
    [warning |-> "failed to connect", count |-> Len(names), servers |-> names]

\* the matches grep must print: those of every server that gave a tool list
RECURSIVE ExpectedMatches(_)
ExpectedMatches(k) ==
    IF k >= N THEN <<>>
    ELSE (IF Failed(k) THEN <<>>
          ELSE SearchTools(globToRegex(pattern), items[k + 1], units[k].tools, 1))
         \o ExpectedMatches(k + 1)

\* C7 as stated: list and grep both print, when some server failed, one
\* warning naming exactly the failed servers
C7_BothCommandsWarn ==
    (ppc = "done" /\ N > 0) =>
        stderr = (IF Len(AllFailedNames) > 0
                  THEN <<FailureWarning(AllFailedNames)>> ELSE <<>>)

\* C7 amended: grep prints one warning naming exactly the servers whose
\* failure carries a non-empty message, and still prints the matches of all
\* other servers; list prints no warning and shows every server, a failed one
\* (non-empty message) with an <error: message> entry in place of its tools
C7_GrepWarnsListShowsInline ==
    (ppc = "done" /\ N > 0) =>
        /\ cmd = "grep" =>
              /\ stderr = (IF Len(NamedFailedNames) > 0
                           THEN <<FailureWarning(NamedFailedNames)>> ELSE <<>>)
              /\ Len(stdout) = 1
              /\ IF Len(ExpectedMatches(0)) = 0
                 THEN stdout[1].format = "no tools found"
                 ELSE stdout[1].results = ExpectedMatches(0)
        /\ cmd = "list" =>
              /\ stderr = <<>>
              /\ Len(stdout) = 1
              /\ Len(stdout[1].servers) = N
              /\ \A i \in Indices : \E k \in 1..N :
                    /\ stdout[1].servers[k].name = items[i + 1]
                    /\ stdout[1].format = "text" =>
                          stdout[1].servers[k].tools =
                              (IF Failed(i) /\ Truthy(units[i].error)
                               THEN <<ErrorTool(units[i].error)>>
                               ELSE IF Failed(i) THEN <<>>
                               ELSE units[i].tools)
                    /\ stdout[1].format = "json" =>
                          stdout[1].servers[k] = ExpectedListResult(i)

\* grep over three servers: one failed and is named in the warning, the
\* matches of another are printed
C7_Witness ==
    /\ cmd = "grep" /\ ppc = "done" /\ N = 3
    /\ Len(NamedFailedNames) = 1
    /\ stderr = <<FailureWarning(NamedFailedNames)>>
    /\ Len(stdout) = 1 /\ stdout[1].format # "no tools found"
    /\ Len(stdout[1].results) > 0

----------------------------------------------------------------------------
(* Properties of withRetry *)

\* C4: withRetry with maxRetries = R invokes fn at most R + 1 times; with
\* maxRetries = 0 it invokes fn exactly once, never sleeps, and a failure of
\* that invocation is the error raised
C4_AtMostRPlusOneCalls ==
    /\ calls <= rcfg.maxRetries + 1
    /\ (rcfg.maxRetries = 0 /\ rpc \in {"returned", "thrown", "sleeping"}) =>
          (/\ calls = 1
           /\ sleeps = 0
           /\ rpc # "sleeping"
           /\ rpc = "thrown" => (thrown = firstError /\ thrown # Undefined))

\* with R > 0 retries all R + 1 invocations were made and the last one's
\* failure was raised
C4_Witness ==
    /\ rcfg.maxRetries = MaxRetriesBound
    /\ calls = rcfg.maxRetries + 1
    /\ rpc = "thrown"
    /\ sleeps = rcfg.maxRetries

\* C5: when the first invocation fails with a non-transient error, withRetry
\* raises that error after exactly one invocation and without a backoff
\* sleep, whatever maxRetries and the budget are
C5_NonTransientShortCircuit ==
    (firstError # Undefined /\ ~isTransientError(firstError)) =>
        (/\ rpc = "thrown"
         /\ thrown = firstError
         /\ calls = 1
         /\ sleeps = 0)

\* a call with retries left and budget left raised a non-transient error
\* after one invocation
C5_Witness ==
    /\ rpc = "thrown" /\ calls = 1
    /\ thrown = Err("none", MsgInvalidJson)
    /\ rcfg.maxRetries = MaxRetriesBound
    /\ rcfg.totalBudgetMs - (now - startTime) > 1000

----------------------------------------------------------------------------
(* Properties of the cache *)

EntryOf(name) == cacheFiles[getCacheFilePath(name)]

\* C8: with caching enabled, a get(name) issued right after a persisted
\* set(name, tools) (no later than one TTL after it) returns a list equal to
\* tools, whatever the store held for name before the set
C8_SetThenGetRoundTrip ==
    (last.op = "set" /\ last.reason = "saved" /\ now - last.at <= ttlMs) =>
        LET r == LookupCache(cacheFiles, noCache, last.name, now, ttlMs)
        IN /\ ~r.isNull
           /\ ToolsEqual(r.tools, last.tools)

\* a get directly after a set of the empty list over a corrupt file returned
\* the empty list
C8_Witness ==
    /\ last.op = "get" /\ last.afterSet /\ last.prior = "unreadable"
    /\ ~last.isNull /\ last.tools = <<>>

\* C9: for a readable entry of the current version, with caching enabled,
\* get returns the entry's tools iff now - timestamp <= TTL
C9_LiveIffWithinTTL ==
    (/\ last.op = "get" /\ last.at = now /\ ~noCache
     /\ EntryOf(last.name).kind = "json"
     /\ EntryOf(last.name).version = CACHE_VERSION) =>
        ((~last.isNull /\ last.tools = EntryOf(last.name).tools)
            <=> (now - EntryOf(last.name).timestamp <= ttlMs))

\* a get returned an entry whose age is exactly the TTL
C9_Witness ==
    /\ last.op = "get" /\ last.at = now /\ last.reason = "hit"
    /\ EntryOf(last.name).kind = "json"
    /\ now - EntryOf(last.name).timestamp = ttlMs

\* C10: a get of an entry whose version differs from CACHE_VERSION returns
\* absent because of the version, whether or not the entry is expired, and
\* leaves the store as it was
C10_VersionGate ==
    [][(/\ last' # last /\ last'.op = "get" /\ ~noCache
        /\ EntryOf(last'.name).kind = "json"
        /\ EntryOf(last'.name).version # CACHE_VERSION) =>
            (/\ last'.isNull /\ last'.reason = "version"
             /\ cacheFiles' = cacheFiles /\ cacheDir' = cacheDir)]_vars

\* a get met an unexpired entry of another version and returned absent
C10_Witness ==
    /\ last.op = "get" /\ last.at = now /\ last.isNull
    /\ EntryOf(last.name).kind = "json"
    /\ EntryOf(last.name).version # CACHE_VERSION
    /\ now - EntryOf(last.name).timestamp <= ttlMs

\* C11: getCachedToolList never raises: with caching disabled, with no entry
\* under the name's key, or with an entry that cannot be read or parsed, it
\* returns null
C11_GetNeverRaises ==
    last.op = "get" =>
        /\ last.reason # "raised"
        /\ (noCache \/ EntryOf(last.name).kind \in {"none", "corrupt"}) =>
               (last.isNull /\ last.tools = <<>>)

\* a get met a file that cannot be parsed and returned null
C11_Witness ==
    /\ last.op = "get" /\ ~noCache
    /\ EntryOf(last.name).kind = "corrupt"
    /\ last.isNull /\ last.reason = "unreadable"

\* C12: with caching disabled a set changes nothing in the store and a get
\* of the same name then returns null; a set returns normally on each of its
\* paths, also when persisting failed, and a failed set leaves the store as
\* it was
C12_DisabledSetIsNoOp ==
    /\ [](last.op = "set" => last.reason \in {"disabled", "saved", "failed"})
    /\ [][(noCache /\ last'.op = "set") =>
            (/\ last'.reason = "disabled"
             /\ cacheFiles' = cacheFiles /\ cacheDir' = cacheDir
             /\ LookupCache(cacheFiles', noCache', last'.name, now', ttlMs').isNull)]_vars
    /\ [][(last' # last /\ last'.op = "set" /\ last'.reason = "failed") =>
            (cacheFiles' = cacheFiles /\ cacheDir' = cacheDir)]_vars

\* a set ran with caching disabled while the store held a live entry under
\* the name's key
C12_Witness ==
    /\ last.op = "set" /\ last.reason = "disabled" /\ noCache
    /\ last.tools # <<>>
    /\ EntryOf(last.name).kind = "json"
    /\ EntryOf(last.name).version = CACHE_VERSION
    /\ now - EntryOf(last.name).timestamp <= ttlMs

\* C15: clearServerCache(name) leaves no entry under name's key, leaves the
\* entries under every other key as they were, changes nothing when there
\* was no entry, and a get(name) then returns null
C15_ClearRemovesOnlyItsEntry ==
    [][(last'.op = "clear") =>
          LET k == getCacheFilePath(last'.name)
          IN /\ last'.reason \in {"removed", "absent"}
             /\ k \in DOMAIN cacheFiles'
             /\ cacheFiles'[k] = NoFile
             /\ \A j \in DOMAIN cacheFiles \ {k} : cacheFiles'[j] = cacheFiles[j]
             /\ cacheFiles[k] = NoFile => cacheFiles' = cacheFiles
             /\ LookupCache(cacheFiles', noCache', last'.name, now', ttlMs').isNull]_vars

\* an entry was removed while another key still holds a live entry
C15_Witness ==
    /\ last.op = "clear" /\ last.reason = "removed" /\ ~noCache
    /\ \E n \in ServerNames :
          /\ getCacheFilePath(n) # getCacheFilePath(last.name)
          /\ ~LookupCache(cacheFiles, noCache, n, now, ttlMs).isNull

\* C16: after clearAllCaches the store holds no entry, get returns null for
\* every server name and stats returns the empty list; without a cache
\* directory it changes nothing
C16_ClearAllEmptiesStore ==
    /\ [](last.op = "clearAll" =>
            /\ last.reason \in {"removed", "absent"}
            /\ \A k \in DOMAIN cacheFiles : cacheFiles[k] = NoFile
            /\ \A n \in ServerNames :
                  LookupCache(cacheFiles, noCache, n, now, ttlMs).isNull
            /\ \A ok \in BOOLEAN : CacheStats(cacheDir, cacheFiles, now, ok) = <<>>)
    /\ [][(~cacheDir /\ last'.op = "clearAll") =>
            (cacheFiles' = cacheFiles /\ cacheDir' = cacheDir)]_vars

\* clearAllCaches removed a directory that held entries, with caching enabled
C16_Witness ==
    /\ last.op = "clearAll" /\ last.reason = "removed"
    /\ last.prior = "entries" /\ ~noCache

\* C17: getCacheStats returns the empty list without a cache directory, and
\* otherwise, when the directory can be listed, exactly one record
\* {server, age, toolCount} for each entry that can be read and parsed,
\* expired or not, and none for the others
C17_StatsOnePerReadableEntry ==
    last.op = "stats" =>
        LET stats == last.tools
            readable == { k \in DOMAIN cacheFiles : cacheFiles[k].kind = "json" }
        IN /\ last.reason \in {"nodir", "listed", "scanFailed"}
           /\ ~cacheDir => (last.reason = "nodir" /\ stats = <<>>)
           /\ last.reason = "listed" =>
                 /\ Len(stats) = Cardinality(readable)
                 /\ \A k \in readable : \E i \in 1..Len(stats) :
                       /\ stats[i].server = cacheFiles[k].serverName
                       /\ stats[i].toolCount = Len(cacheFiles[k].tools)
                       /\ 1000 * stats[i].age - 500 <= last.at - cacheFiles[k].timestamp
                       /\ last.at - cacheFiles[k].timestamp < 1000 * stats[i].age + 500

\* stats listed an expired entry and skipped a file that cannot be parsed
C17_Witness ==
    /\ last.op = "stats" /\ last.reason = "listed" /\ Len(last.tools) = 1
    /\ \E k \in DOMAIN cacheFiles : cacheFiles[k].kind = "corrupt"
    /\ \E k \in DOMAIN cacheFiles :
          /\ cacheFiles[k].kind = "json"
          /\ last.at - cacheFiles[k].timestamp > ttlMs

\* C18: the store is keyed by the sanitized name alone: when a persisted
\* set("a/b", t1) is followed by a persisted set("a_b", t2) (or the other way
\* round), one entry is left for the two names and get of the first name
\* returns t2
C18_CollidingNamesShareEntry ==
    [][(/\ last.op = "set" /\ last.reason = "saved"
        /\ last'.op = "set" /\ last'.reason = "saved"
        /\ {last.name, last'.name} = { <<"a", "/", "b">>, <<"a", "_", "b">> }) =>
            LET r == LookupCache(cacheFiles', noCache', last.name, now', ttlMs')
            IN /\ Cardinality({ k \in DOMAIN cacheFiles' :
                       /\ k \in {getCacheFilePath(last.name),
                                  getCacheFilePath(last'.name)}
                       /\ cacheFiles'[k].kind # "none" }) = 1
               /\ ~r.isNull
               /\ ToolsEqual(r.tools, last'.tools)]_vars

\* get("a/b") returned the list a set("a_b", ...) of this run stored
C18_Witness ==
    /\ last.op = "get" /\ last.name = <<"a", "/", "b">> /\ ~last.isNull
    /\ EntryOf(last.name).serverName = <<"a", "_", "b">>
    /\ EntryOf(last.name).timestamp > 0
    /\ ToolsEqual(last.tools, <<Tool1, Tool2>>)

----------------------------------------------------------------------------
(* Properties of the command flows *)

\* the servers of the one output the list command printed
ListedServers == stdout[1].servers

\* UTF-16 code units of the characters of the modelled names
CodeUnit ==
    [c \in {"-", "/", "D", "_", "a", "b", "c", "d"} |->
      CASE c = "-" -> 45 [] c = "/" -> 47 [] c = "D" -> 68 [] c = "_" -> 95
        [] c = "a" -> 97 [] c = "b" -> 98 [] c = "c" -> 99 [] c = "d" -> 100]

\* a < b, a = b, a > b in the order of the code units (the order of <)
RECURSIVE CodeUnitCompare(_, _, _)
CodeUnitCompare(a, b, i) ==
    IF i > Len(a) /\ i > Len(b) THEN 0
    ELSE IF i > Len(a) THEN -1
    ELSE IF i > Len(b) THEN 1
    ELSE IF CodeUnit[a[i]] < CodeUnit[b[i]] THEN -1
    ELSE IF CodeUnit[a[i]] > CodeUnit[b[i]] THEN 1
    ELSE CodeUnitCompare(a, b, i + 1)

\* the output names every configured server once
ListsAllServers ==
    /\ Len(stdout) = 1
    /\ Len(ListedServers) = N
    /\ \A i \in 1..N : \E k \in 1..N : ListedServers[k].name = items[i]

\* C20 as claimed: the list output names all configured servers in
\* case-sensitive lexicographic (code unit) order of their names
C20_SortedCaseSensitive ==
    (cmd = "list" /\ ppc = "done" /\ N > 0) =>
        /\ ListsAllServers
        /\ \A k \in 1..(N - 1) :
              CodeUnitCompare(ListedServers[k].name, ListedServers[k + 1].name, 1) <= 0

\* C20: the list output names all configured servers in the order of
\* String.prototype.localeCompare on their names, whatever the order in
\* which the units completed
C20_SortedByLocaleCompare ==
    (cmd = "list" /\ ppc = "done" /\ N > 0) =>
        /\ ListsAllServers
        /\ \A k \in 1..(N - 1) :
              localeCompare(ListedServers[k].name, ListedServers[k + 1].name) <= 0

\* servers configured as D, c, d were listed as c, d, D, the last-configured
\* one having been fetched by another worker than the first
C20_Witness ==
    /\ cmd = "list" /\ ppc = "done"
    /\ items = << <<"D">>, <<"c">>, <<"d">> >>
    /\ [k \in 1..3 |-> ListedServers[k].name] = << <<"c">>, <<"d">>, <<"D">> >>
    /\ units[0].by # units[2].by

\* the unit of server i has run to its end
Settled(i) == units[i].pc \in {"returned", "consumed"}

\* C13: a grep unit whose cache lookup returned a list makes no connect, no
\* list-tools, no cache write and no close call; a unit whose lookup returned
\* null connects, and when it returns matches it has listed the tools, called
\* setCachedToolList with the list returned (which, when the write persists,
\* becomes the server's entry) and closed the connection before filtering
C13_HitSkipsConnectMissPopulates ==
    /\ [](cmd = "grep" => \A i \in Indices :
            /\ units[i].hit =>
                  /\ units[i].looked /\ Settled(i)
                  /\ units[i].conn = "none" /\ units[i].lst = "none"
                  /\ units[i].cached = "none" /\ units[i].closed = "none"
            /\ (units[i].looked /\ ~units[i].hit /\ units[i].pc # "connect") =>
                  units[i].conn # "none"
            /\ (Settled(i) /\ ~units[i].hit /\ units[i].value.error = UndefinedStr) =>
                  /\ units[i].conn = "ok" /\ units[i].lst = "ok"
                  /\ units[i].cached \in {"saved", "failed"}
                  /\ units[i].closed # "none")
    /\ [][cmd = "grep" => \A i \in Indices :
            (units[i].cached = "none" /\ units'[i].cached = "saved") =>
                /\ units[i].pc = "cacheSet" /\ units[i].lst = "ok"
                /\ units'[i].value = Hole
                /\ cacheFiles'[getCacheFilePath(items[i + 1])] =
                      Stringify(items[i + 1], units[i].tools, now, CACHE_VERSION)]_vars

\* one grep run in which one server was answered from the cache and another
\* was connected to, listed and cached
C13_Witness ==
    /\ cmd = "grep" /\ ppc = "done"
    /\ \E i, j \in Indices :
          /\ units[i].hit /\ units[i].conn = "none"
          /\ ~units[j].hit /\ units[j].lst = "ok" /\ units[j].cached = "saved"
          /\ units[j].value.results # <<>>

\* C14 as claimed: a list unit reads the server's cache entry before it
\* connects, and after a successful list-tools it has written the entry
C14_ListUsesCache ==
    cmd = "list" => \A i \in Indices :
        /\ units[i].conn # "none" => units[i].looked
        /\ (Settled(i) /\ units[i].lst = "ok") =>
              /\ units[i].cached \in {"saved", "failed"}
              /\ units[i].cached = "saved" =>
                    cacheFiles[getCacheFilePath(items[i + 1])].kind = "json"

----------------------------------------------------------------------------
(* Properties of concurrent cache access *)

\* C19 as claimed: with two processes writing one server's entry and a third
\* reading it, every get returns null or one of the complete lists written,
\* and once both writes have finished the entry is one of the two entries
\* written
C19_LastWriteWins ==
    /\ procs[3].pc = "done" =>
          \/ procs[3].out.isNull
          \/ \E p \in {1, 2} :
                /\ procs[p].pc # "idle"
                /\ procs[3].out.tools = WrittenEntry(p).tools
    /\ (procs[1].pc = "done" /\ procs[2].pc = "done") =>
          \E p \in {1, 2} : cacheFiles[getCacheFilePath(SrvC)] = WrittenEntry(p)

----------------------------------------------------------------------------
(* Properties of safeClose in the list and grep flows *)

\* C21: safeClose never raises, and a failure of close() never changes the
\* result of a list or grep unit: the step that ends the close always
\* returns (never throws), with the tool list (for grep, its matches) when
\* list-tools succeeded and with the error of the failed list-tools call
\* otherwise; a unit whose connect failed reports that error without any
\* close call
C21_CloseFailureKeepsResult ==
    /\ [][\A i \in Indices :
            (units[i].pc = "close" /\ units'[i].pc # "close") =>
                /\ units'[i].pc = "returned"
                /\ units'[i].closed \in {"ok", "failed"}
                /\ units'[i].value =
                      IF units[i].lst = "ok"
                      THEN ReturnTools(cmd, units[i], items[i + 1],
                                       units[i].tools).value
                      ELSE CatchError(cmd, units[i], items[i + 1],
                                      units[i].error).value]_vars
    /\ [](\A i \in Indices :
            (Settled(i) /\ units[i].conn = "fail") =>
                /\ units[i].closed = "none"
                /\ units[i].value.error = units[i].error)

\* a unit whose list-tools call succeeded with tools and whose close() threw
\* has returned its tools
C21_Witness ==
    \E i \in Indices :
        /\ Settled(i) /\ units[i].closed = "failed" /\ units[i].lst = "ok"
        /\ units[i].tools # <<>> /\ units[i].value.error = UndefinedStr
----------------------------------------------------------------------------
(* Properties of the error classifier *)

\* what the claim and the tests of isTransientError single out
TransientMessages ==
    { Msg503, Msg502, MsgHttp502, MsgStatusCode504, Msg429Phrase,
      MsgConnRefused, MsgConnReset, MsgRequestTimeout, MsgNetworkError }

\* C24: an error with a recognised network error code is transient whatever
\* its message; any other error is classified by its message alone:
\* transient when it shows a leading or HTTP-context 502/503/504/429 status,
\* a network or connection failure phrase or the standalone word timeout,
\* fatal otherwise (a status number or the word network inside other text)
C24_ClassifiedByCodeThenMessage ==
    probe.verdict # "none" =>
        (probe.verdict = "transient") =
            (\/ probe.error.code \in transientCodes
             \/ probe.error.message \in TransientMessages)

\* a fatal verdict for an error whose code is not recognised and whose
\* message holds a status number without HTTP context
C24_Witness ==
    /\ probe.verdict = "fatal"
    /\ probe.error.code = "EPERM"
    /\ probe.error.message = MsgLine502
----------------------------------------------------------------------------
(* Properties of the retry budget and of the backoff *)

\* the budget left at the current instant
RemainingBudget == rcfg.totalBudgetMs - (now - startTime)

\* min(baseDelay * 2^attempt, maxDelay) for the attempt that just failed
CappedBackoff == Min(rcfg.baseDelayMs * 2 ^ attempt, rcfg.maxDelayMs)

\* C27: at the top of the loop with the elapsed time at or past the total
\* budget withRetry starts no attempt: it stops and raises the last error it
\* captured from the operation (an attempt has always been made by then, so
\* the error raised is a captured one and never a timeout error of its own)
C27_NoAttemptPastBudget ==
    [][(rpc = "top" /\ now - startTime >= rcfg.totalBudgetMs) =>
          /\ rpc' = "thrown"
          /\ calls' = calls
          /\ calls >= 1
          /\ thrown' = lastError
          /\ lastError \in RetryErrors]_vars

\* withRetry gave up at the top of the loop with retries left: its timer
\* fired late enough to use up the budget, and it raised the captured error
C27_Witness ==
    /\ rpc = "thrown"
    /\ now - startTime >= rcfg.totalBudgetMs
    /\ attempt <= rcfg.maxRetries
    /\ calls = attempt
    /\ thrown = lastError /\ thrown \in RetryErrors

\* C28: after a failed attempt withRetry raises at once exactly when that
\* was the last allowed attempt, or the error is not transient, or less than
\* one second of budget remains; in every other case, a remaining budget of
\* exactly one second included, it sleeps before a further attempt
C28_RetriesWithOneSecondLeft ==
    /\ (rpc = "thrown" /\ calls >= 1) =>
          \/ attempt >= rcfg.maxRetries
          \/ ~isTransientError(lastError)
          \/ RemainingBudget < 1000
    /\ rpc = "sleeping" =>
          /\ attempt < rcfg.maxRetries
          /\ isTransientError(lastError)
          /\ RemainingBudget >= 1000

\* C29: the sleep after failed attempt k lasts d = min(j, remaining - 1 s)
\* with j within 25% of min(baseDelay * 2^k, maxDelay); d is never negative
\* and never above remaining - 1 s; maxDelay is never negative and is 0 when
\* the total budget is at most 5 s
C29_BackoffWithinQuarter ==
    /\ rcfg.maxDelayMs >= 0
    /\ rcfg.totalBudgetMs <= 5000 => rcfg.maxDelayMs = 0
    /\ rpc = "sleeping" =>
          /\ delay >= 0
          /\ delay <= RemainingBudget - 1000
          /\ \/ 4 * delay >= 3 * CappedBackoff /\ 4 * delay <= 5 * CappedBackoff
             \/ delay = RemainingBudget - 1000 /\ 4 * delay <= 5 * CappedBackoff

\* C29, with the rounding of calculateDelay: j is a whole number of
\* milliseconds, the nearest to a value within 25% of
\* min(baseDelay * 2^k, maxDelay), so it lies within 25% plus half a
\* millisecond of it
C29_BackoffWithinQuarterRounded ==
    /\ rcfg.maxDelayMs >= 0
    /\ rcfg.totalBudgetMs <= 5000 => rcfg.maxDelayMs = 0
    /\ rpc = "sleeping" =>
          /\ delay >= 0
          /\ delay <= RemainingBudget - 1000
          /\ \/ /\ 4 * delay >= 3 * CappedBackoff - 2
                /\ 4 * delay <= 5 * CappedBackoff + 2
             \/ /\ delay = RemainingBudget - 1000
                /\ 4 * delay <= 5 * CappedBackoff + 2

\* a sleep shortened to what the budget allows, and before it a sleep of the
\* capped backoff itself
C29_Witness ==
    /\ rpc = "sleeping"
    /\ rcfg.maxDelayMs > 0
    /\ delay > 0
    /\ delay = RemainingBudget - 1000
    /\ 4 * delay < 3 * CappedBackoff

\* C30: whenever withRetry starts its final permitted attempt, about 5 s of
\* the total budget (4 s at least) are still unspent; read in the claim's
\* favour, for the budgets that exceed 5 s
C30_FinalAttemptHasFiveSeconds ==
    (rpc = "calling" /\ attempt = rcfg.maxRetries /\ rcfg.totalBudgetMs > 5000)
        => RemainingBudget >= 4000
----------------------------------------------------------------------------
(* Properties of the settings *)

\* the integer a text is, for the texts that are integers
IntegerTexts ==
    { <<"0">>, <<"-", "5">>, <<"7">>, <<"6", "0">>, <<" ", "7">>, <<"+", "3">> }
IntegerOf(text) ==
    CASE text = <<"0">> -> 0
      [] text = <<"-", "5">> -> 0 - 5
      [] text = <<"7">> -> 7
      [] text = <<"6", "0">> -> 60
      [] text = <<" ", "7">> -> 7
      [] text = <<"+", "3">> -> 3

\* the integer a text starts with, for the texts that start with one
LeadingIntegerOf(text) ==
    CASE text \in IntegerTexts -> IntegerOf(text)
      [] text = <<"5", "x">> -> 5
      [] text = <<"1", ".", "5">> -> 1

\* the value of a setting when the texts in accepted hold the integers
\* valueOf gives them and every other text counts as unparseable
Expected(text, accepted, valueOf(_), least, scale, default) ==
    IF text \in accepted /\ valueOf(text) >= least
    THEN valueOf(text) * scale
    ELSE default

SettingsAre(accepted, valueOf(_)) ==
    /\ settings.timeoutMs =
          Expected(env["MCP_TIMEOUT"], accepted, valueOf, 1, 1000, 1800000)
    /\ settings.concurrency =
          Expected(env["MCP_CONCURRENCY"], accepted, valueOf, 1, 1, 5)
    /\ settings.maxRetries =
          Expected(env["MCP_MAX_RETRIES"], accepted, valueOf, 0, 1, 3)
    /\ settings.retryDelayMs =
          Expected(env["MCP_RETRY_DELAY"], accepted, valueOf, 1, 1, 1000)
    /\ settings.cacheTTLMs =
          Expected(env["MCP_CACHE_TTL"], accepted, valueOf, 1, 1000, 3600000)

SettingsInRange ==
    /\ settings.timeoutMs > 0 /\ settings.retry.totalBudgetMs > 0
    /\ settings.concurrency >= 1
    /\ settings.maxRetries >= 0 /\ settings.retry.maxRetries >= 0
    /\ settings.retryDelayMs > 0
    /\ settings.cacheTTLMs > 0

\* C25: a setting takes the value of its variable only when the text is an
\* integer in range (above 0; for the retries, 0 or above), and its default
\* for every other text; so the retry budget is positive, the concurrency
\* at least 1 and the number of retries not negative
C25_OnlyIntegersAccepted ==
    settings.read => SettingsAre(IntegerTexts, IntegerOf) /\ SettingsInRange

\* C25, with the parse the getters use: a setting takes the integer its text
\* starts with (after white space; what follows the digits is ignored) when
\* that integer is in range, and its default when the variable is unset or
\* empty, starts with no integer, or starts with one out of range; the
\* consequences for the retry budget, concurrency and retries hold
C25_LeadingIntegerAccepted ==
    settings.read =>
        SettingsAre(IntegerTexts \cup {<<"5", "x">>, <<"1", ".", "5">>},
                    LeadingIntegerOf) /\ SettingsInRange

\* the retries were set to 0 and taken, the timeout was set to 0 and refused
C25_Witness ==
    /\ settings.read
    /\ env["MCP_MAX_RETRIES"] = <<"0">> /\ settings.maxRetries = 0
    /\ env["MCP_TIMEOUT"] = <<"0">>
    /\ settings.timeoutMs = DEFAULT_TIMEOUT_MS
----------------------------------------------------------------------------
(* Properties of one invocation: exit statuses, the grep pattern and the   *)
(* configuration file                                                       *)

\* the invocation has ended
Exited == cli.pc = "exited"

\* the categories of failure: usage or client, remote or server, network
ClientCauses == {"usage", "config", "server", "json", "toolMissing"}
ServerCauses == {"listTools", "callTool"}
NetworkCauses == {"connect"}

\* C22: an info or call command that fails ends with a non-zero status that
\* tells the category of the failure: 1 for usage and client errors (bad
\* configuration, bad target, invalid JSON arguments), 2 for remote errors
\* (a tool execution or a list-tools failure on an established session), 3
\* for connection errors.
C22_ExitStatusTellsCategory ==
    (Exited /\ cli.parsed.command \in {"info", "call"} /\ cli.cause # "none") =>
        /\ cli.cause \in ClientCauses => cli.exitCode = 1
        /\ cli.cause \in ServerCauses => cli.exitCode = 2
        /\ cli.cause \in NetworkCauses => cli.exitCode = 3

\* every tool of every reachable server, as grep reports them
AllTools == [k \in 1..Len(ServerTools) |->
                [server |-> SrvS, tool |-> ServerTools[k]]]

\* the command line asked for a search with this text as its pattern
GrepFor(text) ==
    /\ Exited
    /\ cli.parsed.command = "grep"
    /\ cli.parsed.pattern = text
    /\ cli.cause # "config"

ConfigResolved ==
    /\ cli.pc \in {"loaded", "connect", "session", "exited"}
    /\ cli.parsed.command \in {"list", "grep", "info", "call"}
    /\ cli.cause # "usage"

\* the file the documented order selects: MCP_CONFIG_PATH, then -c, then
\* the default locations in order
DocumentedChoice ==
    IF Truthy(cli.envConfigPath) THEN cli.envConfigPath
    ELSE IF Truthy(cli.parsed.configPath) THEN cli.parsed.configPath
    ELSE SearchDefaults(cli.files, 1)

\* C26: the configuration file is the first applicable of MCP_CONFIG_PATH,
\* the -c argument, ./mcp_servers.json, ~/.mcp_servers.json and
\* ~/.config/mcp/mcp_servers.json; with both MCP_CONFIG_PATH and -c given
\* MCP_CONFIG_PATH is used, and an explicitly given path that does not exist
\* is an error, not a fall-through to the default locations.
C26_ResolvedInDocumentedOrder ==
    ConfigResolved =>
        IF DocumentedChoice \in cli.files
        THEN cli.loaded = DocumentedChoice
        ELSE cli.loaded = UndefinedStr /\ cli.cause = "config"
----------------------------------------------------------------------------
(* Properties of the sessions and of the cache writes of the list and grep *)
(* units                                                                   *)

\* C32: in the list and grep units every session that was opened is closed
\* exactly once before the unit returns its result, whether list-tools
\* succeeded or failed; a unit whose connect failed, or that never
\* connected, makes no close call.
C32_OpenedSessionClosedOnce ==
    \A i \in Indices :
        /\ units[i].closes <= 1
        /\ units[i].closes = 1 => units[i].conn = "ok"
        /\ Settled(i) => (units[i].closes = 1 <=> units[i].conn = "ok")

\* a run in which one session was closed after list-tools had failed and
\* another after it had succeeded, and a third server refused the connection
C32_Witness ==
    /\ ppc = "returned"
    /\ \E i, j, k \in Indices :
          /\ units[i].lst = "fail" /\ units[i].closes = 1
          /\ units[j].lst = "ok" /\ units[j].closes = 1
          /\ units[k].conn = "fail" /\ units[k].closes = 0
\* the grep unit of server i had a cache miss, connected and listed the tools
MissedAndListed(i) ==
    /\ units[i].looked /\ ~units[i].hit
    /\ units[i].conn = "ok" /\ units[i].lst = "ok"

\* C37: a grep unit calls the cache write if and only if it had a cache miss
\* and both connect and list-tools succeeded, and the write stores exactly
\* the tool list returned; the store changes in no other step, so a unit with
\* a cache hit, a connect failure or a list-tools failure leaves every entry
\* (its timestamp included) as it was and stores no empty list.
C37_CacheWrittenIffMissAndListed ==
    /\ [](cmd = "grep" => \A i \in Indices :
            /\ units[i].cached # "none" => MissedAndListed(i)
            /\ Settled(i) => (units[i].cached # "none" <=> MissedAndListed(i))
            /\ (Settled(i) /\ ~MissedAndListed(i)) =>
                  (units[i].hit \/ units[i].conn = "fail" \/ units[i].lst = "fail"))
    /\ [][cmd = "grep" =>
            /\ \A i \in Indices :
                  (units[i].cached = "none" /\ units'[i].cached = "saved") =>
                     cacheFiles' =
                        [cacheFiles EXCEPT ![getCacheFilePath(items[i + 1])] =
                            Stringify(items[i + 1], units[i].tools, now,
                                      CACHE_VERSION)]
            /\ (cacheFiles' # cacheFiles \/ cacheDir' # cacheDir) =>
                  \E i \in Indices :
                     /\ units[i].pc = "cacheSet" /\ MissedAndListed(i)
                     /\ units'[i].cached = "saved"]_vars

\* a grep run in which one unit stored the two tools its server listed, one
\* was answered from the cache and one failed to list its tools and left its
\* server without an entry
C37_Witness ==
    /\ cmd = "grep" /\ ppc = "returned"
    /\ \E i \in Indices :
          /\ units[i].cached = "saved" /\ units[i].tools = <<Tool1, Tool2>>
          /\ cacheFiles[getCacheFilePath(items[i + 1])] =
                Stringify(items[i + 1], <<Tool1, Tool2>>, now, CACHE_VERSION)
    /\ \E j, k \in Indices :
          /\ units[j].hit
          /\ cacheFiles[getCacheFilePath(items[j + 1])].kind = "json"
          /\ units[k].lst = "fail" /\ units[k].cached = "none"
          /\ cacheFiles[getCacheFilePath(items[k + 1])] = NoFile
----------------------------------------------------------------------------
(* Termination of processWithConcurrency *)

\* C35: if every processor invocation completes, processWithConcurrency
\* returns: min(limit, N) workers run, a worker finishes only when the shared
\* index has reached N, and when the call returns every item has been
\* processed once and every invocation has written its slot.
C35_PoolEventuallyReturns ==
    /\ (ppc = "running") ~> (ppc = "returned")
    /\ [](ppc = "running" => Len(workers) = Min(limit, N))
    /\ [](\A w \in DOMAIN workers : workers[w].pc = "done" => currentIndex = N)
    /\ [](ppc = "returned" =>
            /\ currentIndex = N
            /\ \A w \in DOMAIN workers : workers[w].pc = "done"
            /\ \A i \in Indices :
                  /\ invoked[i] = 1 /\ written[i] = 1
                  /\ units[i].pc = "consumed"
                  /\ results[i] = units[i].value /\ results[i] # Hole)

\* three servers processed by two workers, each worker having processed at
\* least one of them, and the call has returned
C35_Witness ==
    /\ ppc = "returned" /\ N = 3 /\ limit = 2
    /\ \E i, j \in Indices : units[i].by = 1 /\ units[j].by = 2
    /\ \A i \in Indices : written[i] = 1
----------------------------------------------------------------------------
(* The budget check of withRetry when the timers fire on time *)

\* C36: with a positive budget and sleeps that last exactly the requested
\* delay, every budget check at the top of the loop finds elapsed below the
\* budget, and after a backoff at least one second of it remains; so the
\* operation is invoked at least once and what withRetry throws is an error
\* caught from the operation, never undefined.
C36_BudgetCheckNeverFires ==
    /\ rcfg.totalBudgetMs > 0
    /\ (rpc = "top" /\ punctual) =>
          /\ now - startTime < rcfg.totalBudgetMs
          /\ attempt > 0 => RemainingBudget >= 1000
    /\ (rpc \in {"returned", "thrown"} /\ punctual) => calls >= 1
    /\ (rpc = "thrown" /\ punctual) =>
          (thrown # Undefined /\ thrown = lastError)

\* the loop is at its top after two backoffs that fired on time, the last
\* one cut to what the budget allowed
C36_Witness ==
    /\ rpc = "top" /\ punctual /\ attempt = 2
    /\ RemainingBudget = 1000
    /\ delay > 0
----------------------------------------------------------------------------
(* Independence of the retry budgets of concurrent operations *)

\* what a withRetry call does when it is the only one: the number of
\* invocations of fn and the time from its start to its end, for attempts
\* that last takes[1], takes[2], ... and all fail with a transient error
RECURSIVE Alone(_, _, _, _, _)
Alone(config, takes, att, elapsed, invocations) ==
    IF att > config.maxRetries \/ elapsed >= config.totalBudgetMs
    THEN [calls |-> invocations, elapsed |-> elapsed]
    ELSE LET failedAt == elapsed + takes[att + 1]
             left == config.totalBudgetMs - failedAt
         IN IF att < config.maxRetries /\ left > 1000
            THEN Alone(config, takes, att + 1,
                       failedAt + Min(calculateDelay(att, config, PairJitter),
                                      left - 1000),
                       invocations + 1)
            ELSE [calls |-> invocations + 1, elapsed |-> failedAt]

\* the time from the start of a lone call to the top of its loop for
\* attempt att, the attempts before it having been retried
RECURSIVE TopAlone(_, _, _)
TopAlone(config, takes, att) ==
    IF att = 0 THEN 0
    ELSE LET failedAt == TopAlone(config, takes, att - 1) + takes[att]
         IN failedAt + Min(calculateDelay(att - 1, config, PairJitter),
                           config.totalBudgetMs - failedAt - 1000)

\* C31: the retry budgets are independent: each withRetry call measures the
\* elapsed time from its own start, so a call that runs while another
\* server's call attempts, sleeps and ages finds at every budget check the
\* elapsed time, makes the invocations, and ends after the time, it would
\* find, make and take alone.
C31_BudgetsIndependent ==
    \A o \in Ops :
        /\ ops[o].pc # "idle" => ops[o].startTime <= now
        /\ ops[o].pc = "top" =>
              now - ops[o].startTime = TopAlone(rcfg, ops[o].takes, ops[o].attempt)
        /\ ops[o].pc = "thrown" =>
              /\ ops[o].calls = Alone(rcfg, ops[o].takes, 0, 0, 0).calls
              /\ ops[o].ended - ops[o].startTime =
                    Alone(rcfg, ops[o].takes, 0, 0, 0).elapsed

\* the second call started while the first was between two attempts, four
\* seconds after it, and both have ended after two invocations each
C31_Witness ==
    /\ ops[1].pc = "thrown" /\ ops[2].pc = "thrown"
    /\ ops[1].startTime = 0 /\ ops[2].startTime = 4000
    /\ rcfg.totalBudgetMs = 6000
    /\ ops[1].calls = 2 /\ ops[2].calls = 2
----------------------------------------------------------------------------
(* The session of the info and call commands *)

\* C33: in the info and call commands the close function of a session that
\* was opened is invoked before the process terminates on every path: on
\* success, when the tool call fails and when the requested tool is not
\* found.
C33_SessionClosedBeforeExit ==
    (Exited /\ cli.parsed.command \in {"info", "call"} /\ cli.opened) =>
        cli.closes >= 1
----------------------------------------------------------------------------
(* The cache store under reads, and the cache command *)

\* C34: getCachedToolList never changes the cache store: a get, whatever it
\* finds (an expired, version-mismatched or corrupt entry included), leaves
\* the directory and every entry exactly as they were; an entry disappears or
\* changes only through clear, clearAll or set.
C34_GetLeavesStore ==
    [][/\ (last' # last /\ last'.op = "get") =>
             (cacheFiles' = cacheFiles /\ cacheDir' = cacheDir)
       /\ (cacheFiles' # cacheFiles \/ cacheDir' # cacheDir) =>
             last'.op \in {"set", "clear", "clearAll"}]_vars

\* a get has just found the entry of its server expired, and the entry is
\* still there, as is the unreadable entry of another server
C34_Witness ==
    /\ last.op = "get" /\ last.at = now /\ last.reason = "expired"
    /\ EntryOf(last.name).kind = "json"
    /\ now - EntryOf(last.name).timestamp > ttlMs
    /\ \E k \in DOMAIN cacheFiles : cacheFiles[k].kind = "corrupt"
\* the cache command has just run
CommandRan == last.op \in {"cache clear", "cache stats"} /\ last.at = now

\* C38: the stats command labels an entry of the current version 'expired'
\* exactly when getCachedToolList would find it expired, and 'valid' exactly
\* when get would return it, also for an entry whose age equals the TTL.
C38_StatsLabelAgreesWithGet ==
    (CommandRan /\ last.reason = "printed") =>
        \A i \in 1..Len(last.tools) :
            LET line == last.tools[i]
                entry == EntryOf(line.name)
            IN (entry.kind = "json" /\ entry.version = CACHE_VERSION) =>
                  /\ line.validity = "expired" <=>
                        ReadEntry(entry, now, ttlMs).reason = "expired"
                  /\ line.validity = "valid" <=>
                        ReadEntry(entry, now, ttlMs).reason = "hit"

\* C39: with caching disabled the cache command performs no cache operation:
\* clear, clear <server> and stats leave the directory and every entry in
\* place and report nothing, so every lookup made with caching enabled again
\* gives what it would have given before the command.
C39_DisabledCommandDoesNothing ==
    [][(/\ last' # last
        /\ last'.op \in {"cache clear", "cache stats"}
        /\ noCache) =>
            /\ cacheFiles' = cacheFiles /\ cacheDir' = cacheDir
            /\ last'.reason = "disabled" /\ last'.tools = <<>>
            /\ \A n \in ServerNames :
                  LookupCache(cacheFiles', FALSE, n, now', ttlMs') =
                     LookupCache(cacheFiles, FALSE, n, now, ttlMs)]_vars

\* 'cache clear <server>' has just run with caching disabled, and the entry
\* of that server is still there and would be returned by a get with caching
\* enabled
C39_Witness ==
    /\ CommandRan /\ noCache
    /\ last.op = "cache clear" /\ last.name \in ServerNames
    /\ last.reason = "disabled"
    /\ LookupCache(cacheFiles, FALSE, last.name, now, ttlMs).reason = "hit"
    /\ now > 0

====
